---- MODULE Spec2Model ----
(***************************************************************************)
(* Model of the flaps feature-flag evaluation core (crates/flaps-core):    *)
(* EvaluationResult, Evaluator::evaluate and its helpers, Flag, FlagKey,   *)
(* EnvironmentConfig, TargetingRule, Condition, Segment and                *)
(* EvaluationContext; and of the offline FlapsClient (crates/flaps-sdk).   *)
(*                                                                         *)
(* Representation.                                                         *)
(*  - Option<T>: None is <<>>, Some(x) is <<x>>.                           *)
(*  - Strings whose bytes matter (flag keys, user ids, attribute names,    *)
(*    attribute string values) are sequences of byte codes; strings that   *)
(*    are only compared (environment keys, flag values, variants) are      *)
(*    TLA+ strings.                                                        *)
(*  - u32 values are pairs <<hi, lo>> of 16-bit halves, so that the 32-bit *)
(*    wrapping arithmetic of the hash is computed exactly.                 *)
(*  - f64 numbers are the integers (each exactly representable).           *)
(*  - Tagged unions are records with one field named after the variant.    *)
(*  - A HashMap that is iterated (the attributes of a context) is its      *)
(*    content and the order in which the instance yields its keys.         *)
(*  - A call that may panic returns Ok(value) or Panic(message).           *)
(*  - A call that recurses runs on a stack of MaxStack frames and, when   *)
(*    it needs more, returns StackOverflow in place of Ok(value).          *)
(***************************************************************************)
EXTENDS Integers, Sequences, FiniteSets, TLC

VARIABLES
    segments,     \* Evaluator.segments: SegmentId -> Segment
    flag,         \* the Flag snapshot handed to evaluate
    context,      \* the EvaluationContext handed to evaluate
    environment,  \* Option<environment key> of the last evaluate call
    result,       \* Option<EvaluationResult> returned by the last evaluate call
    enabled,      \* Option<bool> returned by is_enabled() on that result
    call,         \* Option<the last call of another operation, with its arguments>
    ret,          \* Option<what that call returned>
    history       \* the calls made so far whose answers are compared, with their answers

vars == <<segments, flag, context, environment, result, enabled, call, ret, history>>

None == <<>>
Some(x) == <<x>>
IsSome(o) == o /= <<>>
Unwrap(o) == o[1]

(***************************************************************************)
(* Byte strings used as inputs.                                            *)
(***************************************************************************)
S_u1 == <<117, 49>>                     \* "u1"
S_u2 == <<117, 50>>                     \* "u2"
S_plan == <<112, 108, 97, 110>>         \* "plan"
S_pro == <<112, 114, 111>>              \* "pro"
S_beta == <<98, 101, 116, 97>>          \* "beta"
S_plan2 == <<112, 108, 97, 110, 50>>    \* "plan2"
S_free == <<102, 114, 101, 101>>        \* "free"
S_anonymous == <<97, 110, 111, 110, 121, 109, 111, 117, 115, 58>>   \* "anonymous:"
S_ab_test == <<97, 98, 45, 116, 101, 115, 116>>   \* "ab-test"
S_premium_feature ==                               \* "premium-feature"
    <<112, 114, 101, 109, 105, 117, 109, 45, 102, 101, 97, 116, 117, 114, 101>>

(***************************************************************************)
(* 32-bit unsigned arithmetic on <<hi, lo>> pairs of 16-bit halves.        *)
(***************************************************************************)
U32(hi, lo) == <<hi, lo>>

\* low 16 bits of the product of two 16-bit numbers, by 8-bit limbs
MulLo16(x, y) ==
    LET x1 == x \div 256  x0 == x % 256
        y1 == y \div 256  y0 == y % 256
    IN (x0 * y0 + ((x1 * y0 + x0 * y1) % 256) * 256) % 65536

\* the full 32-bit product of two 16-bit numbers, as <<hi, lo>>
MulFull16(x, y) ==
    LET x1 == x \div 256  x0 == x % 256
        y1 == y \div 256  y0 == y % 256
        mid == x1 * y0 + x0 * y1
        low == x0 * y0 + (mid % 256) * 256
    IN <<(x1 * y1 + mid \div 256 + low \div 65536) % 65536, low % 65536>>

\* u32::wrapping_mul
WrappingMul(a, b) ==
    LET ll == MulFull16(a[2], b[2])
    IN <<(ll[1] + MulLo16(a[1], b[2]) + MulLo16(a[2], b[1])) % 65536, ll[2]>>

\* u32::wrapping_add
WrappingAdd(a, b) ==
    LET lo == a[2] + b[2]
    IN <<(a[1] + b[1] + lo \div 65536) % 65536, lo % 65536>>

RECURSIVE XorBits(_, _, _)
XorBits(x, y, n) ==
    IF n = 0 THEN 0
    ELSE ((x + y) % 2) + 2 * XorBits(x \div 2, y \div 2, n - 1)

\* the xor of two 4-bit numbers, tabulated
XorNibble == [x \in 0..15 |-> [y \in 0..15 |-> XorBits(x, y, 4)]]

Xor16(x, y) ==
    XorNibble[x % 16][y % 16]
    + 16 * XorNibble[(x \div 16) % 16][(y \div 16) % 16]
    + 256 * XorNibble[(x \div 256) % 16][(y \div 256) % 16]
    + 4096 * XorNibble[x \div 4096][y \div 4096]

Xor32(a, b) == <<Xor16(a[1], b[1]), Xor16(a[2], b[2])>>

Pow2(n) == CASE n = 0 -> 1 [] n = 1 -> 2 [] n = 3 -> 8 [] n = 13 -> 8192
             [] n = 15 -> 32768 [] n = 16 -> 65536

\* u32::rotate_left(r) for 0 < r < 16
RotateLeft(a, r) ==
    LET keep == Pow2(16 - r)
    IN <<(a[1] % keep) * Pow2(r) + a[2] \div keep,
         (a[2] % keep) * Pow2(r) + a[1] \div keep>>

\* a >> r for 0 < r <= 16
ShiftRight(a, r) ==
    IF r = 16 THEN <<0, a[1]>>
    ELSE <<a[1] \div Pow2(r), (a[1] % Pow2(r)) * Pow2(16 - r) + a[2] \div Pow2(r)>>

\* a % 100 of the u32 a (65536 % 100 = 36)
Mod100(a) == ((a[1] % 100) * 36 + (a[2] % 100)) % 100

(***************************************************************************)
(* murmur3::murmur3_32 (MurmurHash3 x86_32) over a byte sequence.          *)
(***************************************************************************)
MURMUR_C1 == U32(52382, 11601)     \* 0xcc9e2d51
MURMUR_C2 == U32(7047, 13715)      \* 0x1b873593
MURMUR_N == U32(58964, 27492)      \* 0xe6546b64
MURMUR_F1 == U32(34283, 51819)     \* 0x85ebca6b
MURMUR_F2 == U32(49842, 44597)     \* 0xc2b2ae35

\* the little-endian u32 of up to four bytes
LeWord(bytes) ==
    LET b(i) == IF i <= Len(bytes) THEN bytes[i] ELSE 0
    IN <<b(4) * 256 + b(3), b(2) * 256 + b(1)>>

MixK(k) == WrappingMul(RotateLeft(WrappingMul(k, MURMUR_C1), 15), MURMUR_C2)

RECURSIVE MurmurBody(_, _)
MurmurBody(bytes, h) ==
    IF Len(bytes) >= 4
    THEN LET h1 == Xor32(h, MixK(LeWord(SubSeq(bytes, 1, 4))))
             h2 == WrappingAdd(WrappingMul(RotateLeft(h1, 13), U32(0, 5)), MURMUR_N)
         IN \* the test evaluates h2 before the next block is entered
            IF h2[1] >= 0 THEN MurmurBody(SubSeq(bytes, 5, Len(bytes)), h2) ELSE h2
    ELSE IF Len(bytes) > 0 THEN Xor32(h, MixK(LeWord(bytes)))
    ELSE h

Fmix32(h) ==
    LET h1 == Xor32(h, ShiftRight(h, 16))
        h2 == WrappingMul(h1, MURMUR_F1)
        h3 == Xor32(h2, ShiftRight(h2, 13))
        h4 == WrappingMul(h3, MURMUR_F2)
    IN Xor32(h4, ShiftRight(h4, 16))

murmur3_32(bytes, seed) ==
    Fmix32(Xor32(MurmurBody(bytes, seed), U32(0, Len(bytes))))

\* Evaluator::murmur3_hash
murmur3_hash(input) == murmur3_32(input, U32(0, 0))


(***************************************************************************)
(* FlagValue, FlagType, Flag (flag.rs).                                    *)
(***************************************************************************)
FlagValue_Boolean(b) == [tag |-> "Boolean", b |-> b]
FlagValue_String(s) == [tag |-> "String", s |-> s]

\* FlagValue::is_truthy
is_truthy(v) == IF v.tag = "Boolean" THEN v.b ELSE v.s /= ""

FlagType_Boolean == [tag |-> "Boolean"]
FlagType_String(variants) == [tag |-> "String", variants |-> variants]

\* char::is_ascii_alphanumeric
is_ascii_alphanumeric(c) == c \in 48..57 \cup 65..90 \cup 97..122

\* the closure of FlagKey::new and ::try_new over the chars of the key
all_key_chars(key) ==
    \A i \in DOMAIN key : is_ascii_alphanumeric(key[i]) \/ key[i] = 45 \/ key[i] = 95

\* a call that returned its value, and a call that panicked
Ok(value) == [tag |-> "Ok", value |-> value]
Panic(message) == [tag |-> "Panic", message |-> message]

\* Faulty variant of the constructor: the empty key is let through
FlagKey_new_without_empty_check(key) ==
    IF ~all_key_chars(key)
    THEN Panic("Flag key can only contain alphanumeric characters, hyphens, and underscores")
    ELSE Ok(key)

\* FlagKey::new: the two assert!s
FlagKey_new(key) ==
    IF key = <<>> THEN Panic("Flag key cannot be empty")
    ELSE IF ~all_key_chars(key)
    THEN Panic("Flag key can only contain alphanumeric characters, hyphens, and underscores")
    ELSE Ok(key)

\* FlagKey::try_new
FlagKey_try_new(key) ==
    IF key = <<>> THEN None
    ELSE IF ~all_key_chars(key) THEN None
    ELSE Some(key)

\* the struct literal of Flag::new_boolean / Flag::new_string, once FlagKey::new
\* has returned the key: a flag without environments
Flag_new(key, flag_type) ==
    [key |-> key, flag_type |-> flag_type, environments |-> <<>>]

\* Flag::new_boolean
Flag_new_boolean(key) ==
    LET k == FlagKey_new(key)
    IN IF k.tag = "Panic" THEN k ELSE Ok(Flag_new(k.value, FlagType_Boolean))

\* Flag::new_string
Flag_new_string(key, variants) ==
    LET k == FlagKey_new(key)
    IN IF k.tag = "Panic" THEN k ELSE Ok(Flag_new(k.value, FlagType_String(variants)))

\* Flag::with_environment: HashMap::insert, replacing an earlier entry
with_environment(f, env_key, config) ==
    [f EXCEPT !.environments =
        [k \in DOMAIN f.environments \cup {env_key} |->
            IF k = env_key THEN config ELSE f.environments[k]]]

\* Flag::get_environment
get_environment(f, env_key) ==
    IF env_key \in DOMAIN f.environments THEN Some(f.environments[env_key]) ELSE None

\* Faulty variant of Flag::default_value: the first variant of a string flag is ignored
Flag_default_value_no_variant(f) ==
    IF f.flag_type.tag = "Boolean" THEN FlagValue_Boolean(FALSE) ELSE FlagValue_String("")

\* Flag::default_value
Flag_default_value(f) ==
    IF f.flag_type.tag = "Boolean" THEN FlagValue_Boolean(FALSE)
    ELSE FlagValue_String(IF f.flag_type.variants = <<>> THEN ""
                          ELSE f.flag_type.variants[1])

(***************************************************************************)
(* AttributeValue, Operator, Condition, TargetingRule (rule.rs).           *)
(***************************************************************************)
AttributeValue_String(s) == [tag |-> "String", s |-> s]
AttributeValue_Number(n) == [tag |-> "Number", n |-> n]
AttributeValue_Boolean(b) == [tag |-> "Boolean", b |-> b]
AttributeValue_StringList(l) == [tag |-> "StringList", list |-> l]
AttributeValue_SegmentRef(id) == [tag |-> "SegmentRef", id |-> id]

as_str(v) == IF v.tag = "String" THEN Some(v.s) ELSE None
as_number(v) == IF v.tag = "Number" THEN Some(v.n) ELSE None
as_string_list(v) == IF v.tag = "StringList" THEN Some(v.list) ELSE None
as_segment_ref(v) == IF v.tag = "SegmentRef" THEN Some(v.id) ELSE None

Operator ==
    {"Equals", "NotEquals", "Contains", "StartsWith", "EndsWith", "In", "NotIn",
     "GreaterThan", "GreaterThanOrEqual", "LessThan", "LessThanOrEqual",
     "SemverGreaterThan", "SemverLessThan", "MatchesSegment", "NotMatchesSegment",
     "Regex"}

\* Condition::new (SegmentCondition::new builds the same three fields)
Condition_new(attribute, operator, value) ==
    [attribute |-> attribute, operator |-> operator, value |-> value]

Condition_equals(attribute, value) == Condition_new(attribute, "Equals", value)

Condition_matches_segment(segment_id) ==
    Condition_new(<<>>, "MatchesSegment", AttributeValue_SegmentRef(segment_id))

Min(a, b) == IF a < b THEN a ELSE b

\* TargetingRule::new; the id stands for the fresh RuleId
TargetingRule_new(id, priority, value) ==
    [id |-> id, priority |-> priority, conditions |-> <<>>, value |-> value,
     rollout_percentage |-> None]

\* TargetingRule::with_condition
Rule_with_condition(r, c) == [r EXCEPT !.conditions = Append(@, c)]

\* TargetingRule::with_rollout
Rule_with_rollout(r, percentage) ==
    [r EXCEPT !.rollout_percentage = Some(Min(percentage, 100))]

(***************************************************************************)
(* EnvironmentConfig (environment.rs).                                     *)
(***************************************************************************)
EnvironmentConfig_disabled ==
    [enabled |-> FALSE, rules |-> <<>>, default_value |-> FlagValue_Boolean(FALSE),
     rollout_percentage |-> None, requires_approval |-> FALSE]

EnvironmentConfig_enabled_boolean(value) ==
    [enabled |-> TRUE, rules |-> <<>>, default_value |-> FlagValue_Boolean(value),
     rollout_percentage |-> None, requires_approval |-> FALSE]

EnvironmentConfig_enabled_string(value) ==
    [enabled |-> TRUE, rules |-> <<>>, default_value |-> FlagValue_String(value),
     rollout_percentage |-> None, requires_approval |-> FALSE]

with_enabled(c, e) == [c EXCEPT !.enabled = e]
with_default_value(c, v) == [c EXCEPT !.default_value = v]
with_rollout(c, percentage) == [c EXCEPT !.rollout_percentage = Some(Min(percentage, 100))]
with_rule(c, rule) == [c EXCEPT !.rules = Append(@, rule)]

(***************************************************************************)
(* Segment (segment.rs).                                                   *)
(***************************************************************************)
Segment_new(id) ==
    [id |-> id, rules |-> <<>>, included_users |-> <<>>, excluded_users |-> <<>>]

SegmentRule_new == [conditions |-> <<>>]
SegmentRule_single(c) == [conditions |-> <<c>>]

Segment_with_rule(s, rule) == [s EXCEPT !.rules = Append(@, rule)]
with_included_user(s, user_id) == [s EXCEPT !.included_users = Append(@, user_id)]
with_excluded_user(s, user_id) == [s EXCEPT !.excluded_users = Append(@, user_id)]

\* Segment::is_excluded, Segment::is_included
is_excluded(s, user_id) == \E i \in 1..Len(s.excluded_users) : s.excluded_users[i] = user_id
is_included(s, user_id) == \E i \in 1..Len(s.included_users) : s.included_users[i] = user_id

(***************************************************************************)
(* EvaluationContext (context.rs).                                         *)
(***************************************************************************)
\* The attributes HashMap is its content (attributes) and the order in which
\* this map instance iterates over its keys (order): the order depends on the
\* per-instance hasher seed and on the insertions, not on the content.
\* EvaluationContext::new, ::with_user_id
EvaluationContext_new == [user_id |-> None, attributes |-> <<>>, order |-> <<>>]
EvaluationContext_with_user_id(user_id) ==
    [user_id |-> Some(user_id), attributes |-> <<>>, order |-> <<>>]

\* EvaluationContext::set: HashMap::insert. A new key lands somewhere in the
\* iteration order; here at its end (rehashed gives the other orders).
set(ctx, key, value) ==
    [ctx EXCEPT !.attributes =
                    [k \in DOMAIN ctx.attributes \cup {key} |->
                        IF k = key THEN value ELSE ctx.attributes[k]],
                !.order = IF key \in DOMAIN ctx.attributes THEN @ ELSE Append(@, key)]

\* EvaluationContext::user_id (and ContextBuilder::user_id)
EvaluationContext_user_id(ctx, id) == [ctx EXCEPT !.user_id = Some(id)]

\* EvaluationContext::remove: HashMap::remove; a key the map does not hold
\* leaves it as it is
remove(ctx, key) ==
    [ctx EXCEPT !.attributes = [k \in DOMAIN ctx.attributes \ {key} |-> ctx.attributes[k]],
                !.order = SelectSeq(@, LAMBDA k : k /= key)]

\* the loop of EvaluationContext::merge: the pairs of the other map are
\* inserted in the order in which that map yields them
RECURSIVE insert_all(_, _, _)
insert_all(ctx, attributes, order) ==
    IF order = <<>> THEN ctx
    ELSE insert_all(set(ctx, Head(order), attributes[Head(order)]), attributes, Tail(order))

\* EvaluationContext::merge: the other context's user id, if it has one, and
\* its attributes take precedence
merge(ctx, other) ==
    insert_all([ctx EXCEPT !.user_id = IF IsSome(other.user_id) THEN other.user_id ELSE @],
               other.attributes, other.order)

\* the iteration orders a HashMap of these keys can have
IterationOrders(keys) ==
    {o \in [1..Cardinality(keys) -> keys] : \A k \in keys : \E i \in DOMAIN o : o[i] = k}

\* the contexts of the same content as ctx
rehashed(ctx) ==
    {[ctx EXCEPT !.order = o] : o \in IterationOrders(DOMAIN ctx.attributes)}

\* EvaluationContext::get
get(ctx, key) ==
    IF key \in DOMAIN ctx.attributes THEN Some(ctx.attributes[key]) ELSE None

\* <str as Debug>::fmt without the quotes: the escapes of printable ASCII
RECURSIVE EscapeDebug(_)
EscapeDebug(str) ==
    IF str = <<>> THEN <<>>
    ELSE LET c == Head(str)
             e == CASE c = 34 -> <<92, 34>>      \* "
                    [] c = 92 -> <<92, 92>>      \* \
                    [] c = 10 -> <<92, 110>>     \* \n
                    [] c = 13 -> <<92, 114>>     \* \r
                    [] c = 9 -> <<92, 116>>      \* \t
                    [] OTHER -> <<c>>
         IN e \o EscapeDebug(Tail(str))

DebugStr(str) == <<34>> \o EscapeDebug(str) \o <<34>>

RECURSIVE Digits(_)
Digits(n) == IF n < 10 THEN <<48 + n>> ELSE Digits(n \div 10) \o <<48 + (n % 10)>>

\* <f64 as Debug>::fmt of an integral value of magnitude below 1e16
DebugNumber(n) == (IF n < 0 THEN <<45>> \o Digits(0 - n) ELSE Digits(n)) \o <<46, 48>>

RECURSIVE DebugList(_)
DebugList(l) ==
    IF l = <<>> THEN <<>>
    ELSE IF Len(l) = 1 THEN DebugStr(l[1])
    ELSE DebugStr(l[1]) \o <<44, 32>> \o DebugList(Tail(l))

HexDigit(d) == IF d < 10 THEN 48 + d ELSE 87 + d

RECURSIVE HexPadded(_, _)
HexPadded(n, width) ==
    IF width = 0 THEN <<>> ELSE HexPadded(n \div 16, width - 1) \o <<HexDigit(n % 16)>>

\* <Uuid as Debug>::fmt (lower-case hyphenated) of the uuid whose 128-bit value is id
DebugUuid(id) ==
    <<48, 48, 48, 48, 48, 48, 48, 48, 45, 48, 48, 48, 48, 45, 48, 48, 48, 48, 45,
      48, 48, 48, 48, 45, 48, 48, 48, 48>> \o HexPadded(id, 8)

\* <AttributeValue as Debug>::fmt (derived)
DebugAttributeValue(v) ==
    CASE v.tag = "String" ->
            <<83, 116, 114, 105, 110, 103, 40>> \o DebugStr(v.s) \o <<41>>
      [] v.tag = "Number" ->
            <<78, 117, 109, 98, 101, 114, 40>> \o DebugNumber(v.n) \o <<41>>
      [] v.tag = "Boolean" ->
            <<66, 111, 111, 108, 101, 97, 110, 40>>
            \o (IF v.b THEN <<116, 114, 117, 101>> ELSE <<102, 97, 108, 115, 101>>)
            \o <<41>>
      [] v.tag = "StringList" ->
            <<83, 116, 114, 105, 110, 103, 76, 105, 115, 116, 40, 91>>
            \o DebugList(v.list) \o <<93, 41>>
      [] v.tag = "SegmentRef" ->
            <<83, 101, 103, 109, 101, 110, 116, 82, 101, 102, 40,
              83, 101, 103, 109, 101, 110, 116, 73, 100, 40>>
            \o DebugUuid(v.id) \o <<41, 41>>

\* <str as Ord>::cmp is "less": byte-wise lexicographic order
RECURSIVE StrLess(_, _)
StrLess(a, b) ==
    IF b = <<>> THEN FALSE
    ELSE IF a = <<>> THEN TRUE
    ELSE IF Head(a) /= Head(b) THEN Head(a) < Head(b)
    ELSE StrLess(Tail(a), Tail(b))

\* Faulty variant of the sort: the vector is left as it was filled
Vec_sort_unsorted(v) == v

\* the sorted vector with one more element, placed after its equals
RECURSIVE sort_insert(_, _)
sort_insert(sorted, x) ==
    IF sorted = <<>> THEN <<x>>
    ELSE IF StrLess(x, Head(sorted)) THEN <<x>> \o sorted
    ELSE <<Head(sorted)>> \o sort_insert(Tail(sorted), x)

\* Vec<String>::sort (stable, ascending)
RECURSIVE Vec_sort(_)
Vec_sort(v) ==
    IF v = <<>> THEN <<>>
    ELSE sort_insert(Vec_sort(SubSeq(v, 1, Len(v) - 1)), v[Len(v)])

RECURSIVE Join(_, _)
Join(parts, sep) ==
    IF parts = <<>> THEN <<>>
    ELSE IF Len(parts) = 1 THEN parts[1]
    ELSE parts[1] \o sep \o Join(Tail(parts), sep)

\* Faulty variant of the id: the renderings are joined as the map yields them
effective_user_id_unsorted(ctx) ==
    IF IsSome(ctx.user_id) THEN Unwrap(ctx.user_id)
    ELSE LET parts == [i \in DOMAIN ctx.order |->
                          ctx.order[i] \o <<58>>
                          \o DebugAttributeValue(ctx.attributes[ctx.order[i]])]
         IN S_anonymous \o Join(parts, <<44>>)

\* EvaluationContext::effective_user_id
effective_user_id(ctx) ==
    IF IsSome(ctx.user_id) THEN Unwrap(ctx.user_id)
    ELSE LET parts == [i \in DOMAIN ctx.order |->
                          ctx.order[i] \o <<58>>
                          \o DebugAttributeValue(ctx.attributes[ctx.order[i]])]
         IN S_anonymous
            \o Join(Vec_sort(parts), <<44>>)

(***************************************************************************)
(* EvaluationResult (evaluation.rs).                                       *)
(***************************************************************************)
EvaluationReason ==
    {"Default", "TargetingMatch", "RolloutIncluded", "RolloutExcluded",
     "FlagDisabled", "EnvironmentNotFound", "FlagNotFound", "Error"}

\* Faulty variant of EvaluationResult::default_value: the value is dropped for FlagValue::default()
EvaluationResult_default_value_dropped(value) ==
    [value |-> FlagValue_Boolean(FALSE), reason |-> "Default", rule_id |-> None,
     in_rollout |-> None]

\* EvaluationResult::default_value
EvaluationResult_default_value(value) ==
    [value |-> value, reason |-> "Default", rule_id |-> None, in_rollout |-> None]

\* Faulty variant of EvaluationResult::disabled: the user is reported as
\* left out of a rollout
EvaluationResult_disabled_rolled_out(value) ==
    [value |-> value, reason |-> "FlagDisabled", rule_id |-> None,
     in_rollout |-> Some(FALSE)]

\* EvaluationResult::disabled
EvaluationResult_disabled(value) ==
    [value |-> value, reason |-> "FlagDisabled", rule_id |-> None, in_rollout |-> None]

\* EvaluationResult::flag_not_found
EvaluationResult_flag_not_found ==
    [value |-> FlagValue_Boolean(FALSE), reason |-> "FlagNotFound",
     rule_id |-> None, in_rollout |-> None]

\* Faulty variant of EvaluationResult::environment_not_found: the reason of its neighbour
EvaluationResult_environment_not_found_as_flag ==
    [value |-> FlagValue_Boolean(FALSE), reason |-> "FlagNotFound",
     rule_id |-> None, in_rollout |-> None]

\* EvaluationResult::environment_not_found
EvaluationResult_environment_not_found ==
    [value |-> FlagValue_Boolean(FALSE), reason |-> "EnvironmentNotFound",
     rule_id |-> None, in_rollout |-> None]

\* Faulty variant of EvaluationResult::is_enabled: the truthiness of the value alone
is_enabled_truthy(r) == is_truthy(r.value)

\* Faulty variant of EvaluationResult::is_enabled: the Error reason is left out
is_enabled_without_error(r) ==
    IF r.reason \in {"FlagDisabled", "FlagNotFound", "EnvironmentNotFound", "RolloutExcluded"}
    THEN FALSE
    ELSE is_truthy(r.value)

\* EvaluationResult::is_enabled
is_enabled(r) ==
    IF r.reason \in {"FlagDisabled", "FlagNotFound", "EnvironmentNotFound",
                     "RolloutExcluded", "Error"}
    THEN FALSE
    ELSE is_truthy(r.value)

(***************************************************************************)
(* Evaluator (evaluation.rs).  segs is self.segments.                      *)
(***************************************************************************)
\* Evaluator::with_segments: later entries of the vector replace earlier ones
RECURSIVE with_segments(_)
with_segments(list) ==
    IF list = <<>> THEN <<>>
    ELSE LET rest == with_segments(SubSeq(list, 1, Len(list) - 1))
             last == list[Len(list)]
         IN [id \in DOMAIN rest \cup {last.id} |-> IF id = last.id THEN last ELSE rest[id]]

\* Evaluator::add_segment
add_segment(segs, segment) ==
    [id \in DOMAIN segs \cup {segment.id} |-> IF id = segment.id THEN segment ELSE segs[id]]

\* Faulty variant of Evaluator::values_equal: a boolean equals the number 1 or 0
values_equal_coerced(a, b) ==
    CASE a.tag = "String" /\ b.tag = "String" -> a.s = b.s
      [] a.tag = "Number" /\ b.tag = "Number" -> a.n = b.n
      [] a.tag = "Boolean" /\ b.tag = "Boolean" -> a.b = b.b
      [] a.tag = "Boolean" /\ b.tag = "Number" -> b.n = (IF a.b THEN 1 ELSE 0)
      [] a.tag = "Number" /\ b.tag = "Boolean" -> a.n = (IF b.b THEN 1 ELSE 0)
      [] OTHER -> FALSE

\* Evaluator::values_equal; on integral f64 values |a - b| < f64::EPSILON is a = b
values_equal(a, b) ==
    CASE a.tag = "String" /\ b.tag = "String" -> a.s = b.s
      [] a.tag = "Number" /\ b.tag = "Number" -> a.n = b.n
      [] a.tag = "Boolean" /\ b.tag = "Boolean" -> a.b = b.b
      [] OTHER -> FALSE

\* str::starts_with, str::ends_with, str::contains
starts_with(str, pat) == Len(pat) <= Len(str) /\ SubSeq(str, 1, Len(pat)) = pat
ends_with(str, pat) ==
    Len(pat) <= Len(str) /\ SubSeq(str, Len(str) - Len(pat) + 1, Len(str)) = pat
contains(str, pat) ==
    \E i \in 0..(Len(str) - Len(pat)) : SubSeq(str, i + 1, i + Len(pat)) = pat

\* Faulty variant of Evaluator::compare_values: NotIn mirrors In and fails
\* when the operand is not a string list
compare_values_not_in_fails(actual, operator, expected) ==
    LET both_str == IsSome(as_str(actual)) /\ IsSome(as_str(expected))
        both_num == IsSome(as_number(actual)) /\ IsSome(as_number(expected))
        in_list == \E i \in 1..Len(expected.list) : expected.list[i] = actual.s
    IN CASE operator = "Equals" -> values_equal(actual, expected)
         [] operator = "NotEquals" -> ~values_equal(actual, expected)
         [] operator = "Contains" -> both_str /\ contains(actual.s, expected.s)
         [] operator = "StartsWith" -> both_str /\ starts_with(actual.s, expected.s)
         [] operator = "EndsWith" -> both_str /\ ends_with(actual.s, expected.s)
         [] operator = "In" ->
                IF IsSome(as_string_list(expected))
                THEN IF IsSome(as_str(actual)) THEN in_list ELSE FALSE
                ELSE FALSE
         [] operator = "NotIn" ->
                IF IsSome(as_string_list(expected))
                THEN IF IsSome(as_str(actual)) THEN ~in_list ELSE TRUE
                ELSE FALSE
         [] operator = "GreaterThan" -> both_num /\ actual.n > expected.n
         [] operator = "GreaterThanOrEqual" -> both_num /\ actual.n >= expected.n
         [] operator = "LessThan" -> both_num /\ actual.n < expected.n
         [] operator = "LessThanOrEqual" -> both_num /\ actual.n <= expected.n
         [] operator \in {"SemverGreaterThan", "SemverLessThan"} -> FALSE
         [] operator = "Regex" -> FALSE
         [] operator \in {"MatchesSegment", "NotMatchesSegment"} -> FALSE

\* Evaluator::compare_values
compare_values(actual, operator, expected) ==
    LET both_str == IsSome(as_str(actual)) /\ IsSome(as_str(expected))
        both_num == IsSome(as_number(actual)) /\ IsSome(as_number(expected))
        in_list == \E i \in 1..Len(expected.list) : expected.list[i] = actual.s
    IN CASE operator = "Equals" -> values_equal(actual, expected)
         [] operator = "NotEquals" -> ~values_equal(actual, expected)
         [] operator = "Contains" -> both_str /\ contains(actual.s, expected.s)
         [] operator = "StartsWith" -> both_str /\ starts_with(actual.s, expected.s)
         [] operator = "EndsWith" -> both_str /\ ends_with(actual.s, expected.s)
         [] operator = "In" ->
                IF IsSome(as_string_list(expected))
                THEN IF IsSome(as_str(actual)) THEN in_list ELSE FALSE
                ELSE FALSE
         [] operator = "NotIn" ->
                IF IsSome(as_string_list(expected))
                THEN IF IsSome(as_str(actual)) THEN ~in_list ELSE TRUE
                ELSE TRUE
         [] operator = "GreaterThan" -> both_num /\ actual.n > expected.n
         [] operator = "GreaterThanOrEqual" -> both_num /\ actual.n >= expected.n
         [] operator = "LessThan" -> both_num /\ actual.n < expected.n
         [] operator = "LessThanOrEqual" -> both_num /\ actual.n <= expected.n
         [] operator \in {"SemverGreaterThan", "SemverLessThan"} -> FALSE
         [] operator = "Regex" -> FALSE
         [] operator \in {"MatchesSegment", "NotMatchesSegment"} -> FALSE

RECURSIVE evaluate_condition(_, _, _)
RECURSIVE evaluate_segment_membership(_, _, _)
RECURSIVE all_conditions(_, _, _)
RECURSIVE any_segment_rule(_, _, _)

\* Faulty variant of Iterator::all: no condition, no match
all_conditions_some(segs, conditions, ctx) ==
    /\ conditions /= <<>>
    /\ \A i \in DOMAIN conditions : evaluate_condition(segs, conditions[i], ctx)

\* Iterator::all over the conditions of a rule, left to right, stopping at the
\* first condition that fails
all_conditions(segs, conditions, ctx) ==
    IF conditions = <<>> THEN TRUE
    ELSE IF ~evaluate_condition(segs, Head(conditions), ctx) THEN FALSE
    ELSE all_conditions(segs, Tail(conditions), ctx)

\* the loop over segment.rules of evaluate_segment_membership
any_segment_rule(segs, rules, ctx) ==
    IF rules = <<>> THEN FALSE
    ELSE IF all_conditions(segs, Head(rules).conditions, ctx) THEN TRUE
    ELSE any_segment_rule(segs, Tail(rules), ctx)

\* Faulty variant of Evaluator::evaluate_segment_membership: inclusions are checked first
evaluate_segment_membership_include_first(segs, segment_id, ctx) ==
    IF segment_id \notin DOMAIN segs THEN FALSE
    ELSE LET segment == segs[segment_id]
         IN IF IsSome(ctx.user_id) /\ is_included(segment, Unwrap(ctx.user_id)) THEN TRUE
            ELSE IF IsSome(ctx.user_id) /\ is_excluded(segment, Unwrap(ctx.user_id)) THEN FALSE
            ELSE any_segment_rule(segs, segment.rules, ctx)

\* Faulty variant of Evaluator::evaluate_segment_membership: the lists are
\* looked up with the effective user id, which a context without user id has too
evaluate_segment_membership_effective_id(segs, segment_id, ctx) ==
    IF segment_id \notin DOMAIN segs THEN FALSE
    ELSE LET segment == segs[segment_id]
         IN IF is_excluded(segment, effective_user_id(ctx)) THEN FALSE
            ELSE IF is_included(segment, effective_user_id(ctx)) THEN TRUE
            ELSE any_segment_rule(segs, segment.rules, ctx)

\* Evaluator::evaluate_segment_membership
evaluate_segment_membership(segs, segment_id, ctx) ==
    IF segment_id \notin DOMAIN segs THEN FALSE
    ELSE LET segment == segs[segment_id]
         IN IF IsSome(ctx.user_id) /\ is_excluded(segment, Unwrap(ctx.user_id)) THEN FALSE
            ELSE IF IsSome(ctx.user_id) /\ is_included(segment, Unwrap(ctx.user_id)) THEN TRUE
            ELSE any_segment_rule(segs, segment.rules, ctx)

\* Faulty variant of Evaluator::evaluate_condition: on a missing attribute the
\* negated operators hold
evaluate_condition_missing_negated(segs, condition, ctx) ==
    IF condition.operator = "MatchesSegment"
    THEN IF IsSome(as_segment_ref(condition.value))
         THEN evaluate_segment_membership(segs, Unwrap(as_segment_ref(condition.value)), ctx)
         ELSE FALSE
    ELSE IF condition.operator = "NotMatchesSegment"
    THEN IF IsSome(as_segment_ref(condition.value))
         THEN ~evaluate_segment_membership(segs, Unwrap(as_segment_ref(condition.value)), ctx)
         ELSE FALSE
    ELSE LET attr_value == get(ctx, condition.attribute)
         IN IF attr_value = None THEN condition.operator \in {"NotEquals", "NotIn"}
            ELSE compare_values(Unwrap(attr_value), condition.operator, condition.value)

\* Faulty variant of Evaluator::evaluate_condition: the operators without
\* implementation hold on every attribute the context has
evaluate_condition_unimplemented_hold(segs, condition, ctx) ==
    IF condition.operator = "MatchesSegment"
    THEN IF IsSome(as_segment_ref(condition.value))
         THEN evaluate_segment_membership(segs, Unwrap(as_segment_ref(condition.value)), ctx)
         ELSE FALSE
    ELSE IF condition.operator = "NotMatchesSegment"
    THEN IF IsSome(as_segment_ref(condition.value))
         THEN ~evaluate_segment_membership(segs, Unwrap(as_segment_ref(condition.value)), ctx)
         ELSE FALSE
    ELSE LET attr_value == get(ctx, condition.attribute)
         IN IF attr_value = None THEN FALSE
            ELSE IF condition.operator \in {"SemverGreaterThan", "SemverLessThan", "Regex"}
                 THEN TRUE
            ELSE compare_values(Unwrap(attr_value), condition.operator, condition.value)

\* Evaluator::evaluate_condition
evaluate_condition(segs, condition, ctx) ==
    IF condition.operator = "MatchesSegment"
    THEN IF IsSome(as_segment_ref(condition.value))
         THEN evaluate_segment_membership(segs, Unwrap(as_segment_ref(condition.value)), ctx)
         ELSE FALSE
    ELSE IF condition.operator = "NotMatchesSegment"
    THEN IF IsSome(as_segment_ref(condition.value))
         THEN ~evaluate_segment_membership(segs, Unwrap(as_segment_ref(condition.value)), ctx)
         ELSE FALSE
    ELSE LET attr_value == get(ctx, condition.attribute)
         IN IF attr_value = None THEN FALSE
            ELSE compare_values(Unwrap(attr_value), condition.operator, condition.value)

\* Faulty variant of Evaluator::evaluate_rule: a rule needs a condition to match
evaluate_rule_needs_condition(segs, rule, ctx) ==
    IF rule.conditions = <<>> THEN FALSE
    ELSE all_conditions(segs, rule.conditions, ctx)

\* Evaluator::evaluate_rule
evaluate_rule(segs, rule, ctx) ==
    IF rule.conditions = <<>> THEN TRUE
    ELSE all_conditions(segs, rule.conditions, ctx)

\* Faulty variant of the rollout check: no early return, and a bucket equal to
\* the percentage counts as included
is_in_rollout_inclusive(user_id, flag_key, percentage) ==
    LET key == flag_key \o user_id
        hash == murmur3_hash(key)
        bucket == Mod100(hash)
    IN bucket <= percentage

\* Faulty variant of the rollout check: the hashed string is the user id
\* followed by the flag key
is_in_rollout_user_first(user_id, flag_key, percentage) ==
    IF percentage >= 100 THEN TRUE
    ELSE IF percentage = 0 THEN FALSE
    ELSE LET key == user_id \o flag_key
             hash == murmur3_hash(key)
             bucket == Mod100(hash)
         IN bucket < percentage

\* Faulty variant of the rollout check: a percentage above 100 wraps around
is_in_rollout_wrapping(user_id, flag_key, percentage) ==
    IF percentage = 100 THEN TRUE
    ELSE IF percentage = 0 THEN FALSE
    ELSE LET key == flag_key \o user_id
             hash == murmur3_hash(key)
             bucket == Mod100(hash)
         IN bucket < percentage % 100

\* Evaluator::is_in_rollout; percentage is a u8
is_in_rollout(user_id, flag_key, percentage) ==
    IF percentage >= 100 THEN TRUE
    ELSE IF percentage = 0 THEN FALSE
    ELSE LET key == flag_key \o user_id
             hash == murmur3_hash(key)
             bucket == Mod100(hash)
         IN bucket < percentage

\* Evaluator::is_in_rollout as the method it is: &self brings the evaluator's
\* segment map into scope, and the body does not read it
Evaluator_is_in_rollout(segs, user_id, flag_key, percentage) ==
    is_in_rollout(user_id, flag_key, percentage)

\* Faulty variant of the sort: the rules are left in their stored order
sort_by_priority_unsorted(rules) == rules

\* slice::sort_by_key(|r| r.priority): a stable sort by ascending priority
RECURSIVE sort_by_priority(_)
sort_by_priority(rules) ==
    IF rules = <<>> THEN <<>>
    ELSE LET sorted == sort_by_priority(SubSeq(rules, 1, Len(rules) - 1))
             r == rules[Len(rules)]
             n == Cardinality({i \in 1..Len(sorted) : sorted[i].priority <= r.priority})
         IN SubSeq(sorted, 1, n) \o <<r>> \o SubSeq(sorted, n + 1, Len(sorted))

\* Faulty variant of the rule loop: a rule whose rollout excludes the user ends the loop
RECURSIVE evaluate_rules_break(_, _, _, _)
evaluate_rules_break(segs, f, rules, ctx) ==
    IF rules = <<>> THEN None
    ELSE LET rule == Head(rules)
         IN IF evaluate_rule(segs, rule, ctx)
            THEN IF IsSome(rule.rollout_percentage)
                 THEN IF is_in_rollout(effective_user_id(ctx), f.key,
                                       Unwrap(rule.rollout_percentage))
                      THEN Some([value |-> rule.value, reason |-> "TargetingMatch",
                                 rule_id |-> Some(rule.id), in_rollout |-> Some(TRUE)])
                      ELSE None
                 ELSE Some([value |-> rule.value, reason |-> "TargetingMatch",
                            rule_id |-> Some(rule.id), in_rollout |-> None])
            ELSE evaluate_rules_break(segs, f, Tail(rules), ctx)

\* Faulty variant of the rule loop: in_rollout is not set for a rule with a rollout
RECURSIVE evaluate_rules_unflagged(_, _, _, _)
evaluate_rules_unflagged(segs, f, rules, ctx) ==
    IF rules = <<>> THEN None
    ELSE LET rule == Head(rules)
         IN IF evaluate_rule(segs, rule, ctx)
               /\ (IsSome(rule.rollout_percentage) =>
                     is_in_rollout(effective_user_id(ctx), f.key,
                                   Unwrap(rule.rollout_percentage)))
            THEN Some([value |-> rule.value, reason |-> "TargetingMatch",
                       rule_id |-> Some(rule.id), in_rollout |-> None])
            ELSE evaluate_rules_unflagged(segs, f, Tail(rules), ctx)

\* the loop "for rule in rules" of Evaluator::evaluate: Some(result) when a rule
\* returns, None when the loop runs to its end
RECURSIVE evaluate_rules(_, _, _, _)
evaluate_rules(segs, f, rules, ctx) ==
    IF rules = <<>> THEN None
    ELSE LET rule == Head(rules)
         IN IF evaluate_rule(segs, rule, ctx)
            THEN IF IsSome(rule.rollout_percentage)
                 THEN IF is_in_rollout(effective_user_id(ctx), f.key,
                                       Unwrap(rule.rollout_percentage))
                      THEN Some([value |-> rule.value, reason |-> "TargetingMatch",
                                 rule_id |-> Some(rule.id), in_rollout |-> Some(TRUE)])
                      ELSE evaluate_rules(segs, f, Tail(rules), ctx)
                 ELSE Some([value |-> rule.value, reason |-> "TargetingMatch",
                            rule_id |-> Some(rule.id), in_rollout |-> None])
            ELSE evaluate_rules(segs, f, Tail(rules), ctx)

\* Faulty variant of the global rollout block: an excluded user gets the environment's default
global_rollout_env_default(f, env_config, ctx) ==
    IF IsSome(env_config.rollout_percentage)
    THEN LET in_rollout == is_in_rollout(effective_user_id(ctx), f.key,
                                         Unwrap(env_config.rollout_percentage))
         IN Some([value |-> env_config.default_value,
                  reason |-> IF in_rollout THEN "RolloutIncluded" ELSE "RolloutExcluded",
                  rule_id |-> None,
                  in_rollout |-> Some(in_rollout)])
    ELSE None

\* Faulty variant of the global rollout block: the bucket is derived from the
\* user id alone, not from the flag key and the user id
global_rollout_own_bucket(f, env_config, ctx) ==
    IF IsSome(env_config.rollout_percentage)
    THEN LET in_rollout == is_in_rollout(effective_user_id(ctx), <<>>,
                                         Unwrap(env_config.rollout_percentage))
         IN Some([value |-> IF in_rollout THEN env_config.default_value
                            ELSE Flag_default_value(f),
                  reason |-> IF in_rollout THEN "RolloutIncluded" ELSE "RolloutExcluded",
                  rule_id |-> None,
                  in_rollout |-> Some(in_rollout)])
    ELSE None

\* the block "apply global rollout if configured" of Evaluator::evaluate:
\* Some(result) when a percentage is configured, None otherwise
global_rollout(f, env_config, ctx) ==
    IF IsSome(env_config.rollout_percentage)
    THEN LET in_rollout == is_in_rollout(effective_user_id(ctx), f.key,
                                         Unwrap(env_config.rollout_percentage))
         IN Some([value |-> IF in_rollout THEN env_config.default_value
                            ELSE Flag_default_value(f),
                  reason |-> IF in_rollout THEN "RolloutIncluded" ELSE "RolloutExcluded",
                  rule_id |-> None,
                  in_rollout |-> Some(in_rollout)])
    ELSE None

\* Evaluator::evaluate
evaluate(segs, f, env, ctx) ==
    LET found == get_environment(f, env)
    IN IF found = None THEN EvaluationResult_environment_not_found
       ELSE LET env_config == Unwrap(found)
            IN IF ~env_config.enabled
               THEN EvaluationResult_disabled(Flag_default_value(f))
               ELSE LET matched == evaluate_rules(segs, f,
                                       sort_by_priority(env_config.rules), ctx)
                        rolled == global_rollout(f, env_config, ctx)
                    IN IF IsSome(matched) THEN Unwrap(matched)
                       ELSE IF IsSome(rolled) THEN Unwrap(rolled)
                       ELSE EvaluationResult_default_value(env_config.default_value)

(***************************************************************************)
(* The recursion of evaluate_condition and evaluate_segment_membership on a *)
(* call stack of finite depth.  The two methods call each other with no     *)
(* record of the segments under evaluation; a call made when no frame is    *)
(* left overflows the stack, which ends the process without a result.       *)
(***************************************************************************)
MaxStack == 6       \* frames the stack has for the two methods

\* the outcome of a call that overflowed the stack
StackOverflow == [tag |-> "StackOverflow"]

\* a loop that goes on to rest while the step returns go_on, and returns what
\* the step returned otherwise (Iterator::all, the loop over segment.rules)
short_circuit(step, go_on, rest) == IF step = Ok(go_on) THEN rest ELSE step

\* the operator ! on the outcome of a call
negated(returned) == IF returned.tag = "Ok" THEN Ok(~returned.value) ELSE returned

RECURSIVE evaluate_condition_on_stack(_, _, _, _)
RECURSIVE evaluate_segment_membership_on_stack(_, _, _, _)
RECURSIVE all_conditions_on_stack(_, _, _, _)
RECURSIVE any_segment_rule_on_stack(_, _, _, _)

\* Iterator::all over the conditions, with stack frames left
all_conditions_on_stack(segs, conditions, ctx, stack) ==
    IF conditions = <<>> THEN Ok(TRUE)
    ELSE short_circuit(evaluate_condition_on_stack(segs, Head(conditions), ctx, stack),
                       TRUE,
                       all_conditions_on_stack(segs, Tail(conditions), ctx, stack))

\* the loop over segment.rules, with stack frames left
any_segment_rule_on_stack(segs, rules, ctx, stack) ==
    IF rules = <<>> THEN Ok(FALSE)
    ELSE short_circuit(all_conditions_on_stack(segs, Head(rules).conditions, ctx, stack),
                       FALSE,
                       any_segment_rule_on_stack(segs, Tail(rules), ctx, stack))

\* Evaluator::evaluate_segment_membership called with stack frames left
evaluate_segment_membership_on_stack(segs, segment_id, ctx, stack) ==
    IF stack = 0 THEN StackOverflow
    ELSE IF segment_id \notin DOMAIN segs THEN Ok(FALSE)
    ELSE LET segment == segs[segment_id]
         IN IF IsSome(ctx.user_id) /\ is_excluded(segment, Unwrap(ctx.user_id))
            THEN Ok(FALSE)
            ELSE IF IsSome(ctx.user_id) /\ is_included(segment, Unwrap(ctx.user_id))
            THEN Ok(TRUE)
            ELSE any_segment_rule_on_stack(segs, segment.rules, ctx, stack - 1)

\* Evaluator::evaluate_condition called with stack frames left
evaluate_condition_on_stack(segs, condition, ctx, stack) ==
    IF stack = 0 THEN StackOverflow
    ELSE IF condition.operator = "MatchesSegment"
    THEN IF IsSome(as_segment_ref(condition.value))
         THEN evaluate_segment_membership_on_stack(
                  segs, Unwrap(as_segment_ref(condition.value)), ctx, stack - 1)
         ELSE Ok(FALSE)
    ELSE IF condition.operator = "NotMatchesSegment"
    THEN IF IsSome(as_segment_ref(condition.value))
         THEN negated(evaluate_segment_membership_on_stack(
                  segs, Unwrap(as_segment_ref(condition.value)), ctx, stack - 1))
         ELSE Ok(FALSE)
    ELSE Ok(evaluate_condition(segs, condition, ctx))

\* the loop "for rule in rules" of Evaluator::evaluate: whether a rule
\* overflows the stack before a rule returns
RECURSIVE rules_overflow(_, _, _, _, _)
rules_overflow(segs, f, rules, ctx, stack) ==
    IF rules = <<>> THEN FALSE
    ELSE IF all_conditions_on_stack(segs, Head(rules).conditions, ctx, stack)
               = StackOverflow
    THEN TRUE
    ELSE IF evaluate_rules(segs, f, <<Head(rules)>>, ctx) /= None THEN FALSE
    ELSE rules_overflow(segs, f, Tail(rules), ctx, stack)

\* Evaluator::evaluate called with stack frames left for the two methods
evaluate_on_stack(segs, f, env, ctx, stack) ==
    IF /\ IsSome(get_environment(f, env))
       /\ Unwrap(get_environment(f, env)).enabled
       /\ rules_overflow(segs, f, sort_by_priority(Unwrap(get_environment(f, env)).rules),
                         ctx, stack)
    THEN StackOverflow
    ELSE Ok(evaluate(segs, f, env, ctx))

(***************************************************************************)
(* FlapsClient (flaps-sdk, client.rs): the flags by key, the evaluator and *)
(* the environment of the configuration.                                   *)
(***************************************************************************)
\* FlagValue::as_bool
FlagValue_as_bool(v) == IF v.tag = "Boolean" THEN Some(v.b) ELSE None

\* Config::default().offline(): the fields the client reads
Config_default_offline == [environment |-> "dev", offline_mode |-> TRUE]

\* the cache of flags by key; of two flags of one key the later stays
RECURSIVE flags_map(_)
flags_map(flags) ==
    IF flags = <<>> THEN <<>>
    ELSE LET rest == flags_map(SubSeq(flags, 1, Len(flags) - 1))
             last == flags[Len(flags)]
         IN [k \in DOMAIN rest \cup {last.key} |-> IF k = last.key THEN last ELSE rest[k]]

\* FlapsClient::offline
FlapsClient_offline(flags, segment_list) ==
    [config |-> Config_default_offline,
     evaluator |-> with_segments(segment_list),
     flags |-> flags_map(flags)]

\* FlapsClient::evaluate
FlapsClient_evaluate(client, flag_key, ctx) ==
    IF flag_key \in DOMAIN client.flags
    THEN evaluate(client.evaluator, client.flags[flag_key], client.config.environment, ctx)
    ELSE EvaluationResult_flag_not_found

\* the match on result.reason of FlapsClient::get_bool
get_bool_match(r, default) ==
    IF r.reason \in {"FlagNotFound", "EnvironmentNotFound"} THEN default
    ELSE LET b == FlagValue_as_bool(r.value)
         IN IF IsSome(b) THEN Unwrap(b) ELSE default

\* FlapsClient::get_bool
FlapsClient_get_bool(client, flag_key, ctx, default) ==
    get_bool_match(FlapsClient_evaluate(client, flag_key, ctx), default)

(***************************************************************************)
(* Inputs: the flags, contexts and segment maps the evaluator is run on.   *)
(***************************************************************************)
MaxRules == 2       \* most targeting rules of one environment
MaxPriority == 2    \* priorities are 1..MaxPriority

EnvKeys == {"dev", "prod"}

Cond_plan_pro == Condition_equals(S_plan, AttributeValue_String(S_pro))

\* user ids x the plan attribute
Contexts(users, plans) ==
    {IF p = None THEN [user_id |-> u, attributes |-> <<>>, order |-> <<>>]
     ELSE set([user_id |-> u, attributes |-> <<>>, order |-> <<>>], S_plan,
              AttributeValue_String(Unwrap(p))) :
        u \in users, p \in plans}

\* a rule without its id and value
RuleShapes(conditions, rollouts) ==
    [priority : 1..MaxPriority, conditions : conditions, rollout_percentage : rollouts]

\* the value of the rule declared at position i: neighbours carry different values
RuleValue(i) ==
    CASE i % 3 = 1 -> FlagValue_Boolean(TRUE)
      [] i % 3 = 2 -> FlagValue_String("variant-b")
      [] OTHER -> FlagValue_String("")

\* the rule lists of at most MaxRules rules of the given shapes; a rule's id is
\* its position in the declaration order (RuleId::new gives each rule a fresh id)
RuleLists(shapes) ==
    UNION {{[i \in 1..n |->
                [id |-> i, priority |-> l[i].priority, conditions |-> l[i].conditions,
                 value |-> RuleValue(i), rollout_percentage |-> l[i].rollout_percentage]] :
            l \in [1..n -> shapes]} : n \in 0..MaxRules}

Config(enabled_, rules, default_value, rollout) ==
    [enabled |-> enabled_, rules |-> rules, default_value |-> default_value,
     rollout_percentage |-> rollout, requires_approval |-> FALSE]

FlagTypes ==
    {FlagType_Boolean, FlagType_String(<<>>), FlagType_String(<<"variant-a", "variant-b">>)}

\* Scenarios of rule ordering: an enabled boolean flag with up to MaxRules rules
RuleScenarios ==
    {[flag |-> with_environment(Flag_new(S_ab_test, FlagType_Boolean), "dev",
                   Config(TRUE, rules, FlagValue_Boolean(FALSE), rollout)),
      context |-> ctx, segments |-> <<>>] :
        rules \in RuleLists(RuleShapes({<<>>, <<Cond_plan_pro>>}, {None, Some(50)})),
        rollout \in {None, Some(30)},
        ctx \in Contexts({Some(S_u1), Some(S_u2)}, {None, Some(S_pro)})}

\* Scenarios of environment configuration: every flag type, enabled state,
\* default value and global rollout, with no rule or one rule
ConfigScenarios ==
    {[flag |-> LET f == with_environment(Flag_new(S_ab_test, type), "dev",
                            Config(en, rules, default, rollout))
               IN IF two THEN with_environment(f, "prod",
                                  EnvironmentConfig_enabled_string("variant-a"))
                  ELSE f,
      context |-> ctx, segments |-> <<>>] :
        type \in FlagTypes, en \in BOOLEAN,
        rules \in {<<>>,
                   <<TargetingRule_new(1, 1, FlagValue_Boolean(TRUE))>>,
                   <<Rule_with_rollout(Rule_with_condition(
                        TargetingRule_new(1, 1, FlagValue_String("variant-b")),
                        Cond_plan_pro), 50)>>},
        default \in {FlagValue_Boolean(TRUE), FlagValue_Boolean(FALSE), FlagValue_String("on")},
        rollout \in {None, Some(0), Some(50), Some(100)},
        two \in BOOLEAN,
        ctx \in Contexts({None, Some(S_u1), Some(S_u2)}, {None, Some(S_pro), Some(S_free)})}

\* a flag without any environment
EmptyScenarios ==
    {[flag |-> Flag_new(S_ab_test, type), context |-> ctx, segments |-> <<>>] :
        type \in FlagTypes, ctx \in Contexts({None, Some(S_u1)}, {None})}

SegmentPool ==
    {[id |-> 1, rules |-> rules, included_users |-> inc, excluded_users |-> exc] :
        rules \in {<<>>, <<SegmentRule_single(Cond_plan_pro)>>, <<SegmentRule_new>>},
        inc \in {<<>>, <<S_u1>>},
        exc \in {<<>>, <<S_u1>>, <<S_u2, S_u1>>, <<S_anonymous>>}}

\* Scenarios of segment targeting: one rule on a segment operator, and an
\* evaluator with no segment or with one segment
SegmentScenarios ==
    {[flag |-> with_environment(Flag_new(S_ab_test, FlagType_Boolean), "dev",
                   Config(TRUE,
                          <<Rule_with_condition(TargetingRule_new(1, 1, FlagValue_Boolean(TRUE)),
                                Condition_new(<<>>, op, AttributeValue_SegmentRef(sid)))>>,
                          FlagValue_Boolean(FALSE), None)),
      context |-> ctx, segments |-> segs] :
        op \in {"MatchesSegment", "NotMatchesSegment"}, sid \in {1, 2},
        segs \in {<<>>} \cup {with_segments(<<s>>) : s \in SegmentPool},
        ctx \in Contexts({None, Some(S_u1), Some(S_u2)}, {None, Some(S_pro), Some(S_free)})}

Scenarios == RuleScenarios \cup ConfigScenarios \cup EmptyScenarios \cup SegmentScenarios

(***************************************************************************)
(* The evaluator at work.                                                  *)
(***************************************************************************)
Init ==
    /\ \E sc \in Scenarios :
          /\ flag = sc.flag
          /\ context = sc.context
          /\ segments = sc.segments
    /\ environment = None
    /\ result = None
    /\ enabled = None
    /\ call = None
    /\ ret = None
    /\ history = {}

\* evaluator.evaluate(&flag, env, &context)
Evaluate(env) ==
    /\ result' = Some(evaluate(segments, flag, env, context))
    /\ environment' = Some(env)
    /\ enabled' = None
    /\ UNCHANGED <<segments, flag, context, call, ret, history>>

\* result.is_enabled()
IsEnabled ==
    /\ IsSome(result)
    /\ enabled' = Some(is_enabled(Unwrap(result)))
    /\ UNCHANGED <<segments, flag, context, environment, result, call, ret, history>>

Next ==
    \/ \E env \in EnvKeys : Evaluate(env)
    \/ IsEnabled

Spec == Init /\ [][Next]_vars

(***************************************************************************)
(* is_enabled() on results of every reason, as the layers around the       *)
(* evaluator build them (FlagNotFound comes from the SDK client).          *)
(***************************************************************************)
Results ==
    [value : {FlagValue_Boolean(TRUE), FlagValue_Boolean(FALSE),
              FlagValue_String(""), FlagValue_String("on")},
     reason : EvaluationReason,
     rule_id : {None, Some(1)},
     in_rollout : {None, Some(TRUE), Some(FALSE)}]

InitIsEnabled ==
    /\ segments = <<>>
    /\ flag = Flag_new(S_ab_test, FlagType_Boolean)
    /\ context = EvaluationContext_new
    /\ environment = None
    /\ \E r \in Results : result = Some(r)
    /\ enabled = None
    /\ call = None
    /\ ret = None
    /\ history = {}

SpecIsEnabled == InitIsEnabled /\ [][IsEnabled]_vars

(***************************************************************************)
(* The rollout check called on one user and flag key while the evaluator   *)
(* and the flag around it change: segments are added, the flag's rules are *)
(* reordered, and the call is made under either environment.               *)
(***************************************************************************)
MaxCalls == 2       \* most calls whose answers are kept in history

Percentages == {0, 1, 80, 100}

RolloutRules ==
    <<Rule_with_rollout(TargetingRule_new(1, 1, FlagValue_Boolean(TRUE)), 80),
      Rule_with_condition(TargetingRule_new(2, 2, FlagValue_Boolean(TRUE)), Cond_plan_pro)>>

\* the same rules in either declaration order
RolloutConfigs ==
    {Config(TRUE, rules, FlagValue_Boolean(FALSE), Some(1)) :
        rules \in {RolloutRules, <<RolloutRules[2], RolloutRules[1]>>}}

InitRollout ==
    /\ \E c \in {[user_id |-> S_u1, flag_key |-> S_ab_test],
                  [user_id |-> S_u2, flag_key |-> S_premium_feature]} :
          /\ call = Some(c)
          /\ context = EvaluationContext_with_user_id(c.user_id)
          /\ \E cfg \in RolloutConfigs :
                flag = with_environment(Flag_new(c.flag_key, FlagType_Boolean), "dev", cfg)
    /\ segments = <<>>
    /\ environment = None
    /\ result = None
    /\ enabled = None
    /\ ret = None
    /\ history = {}

\* evaluator.add_segment(segment)
AddSegment(segment) ==
    /\ segments' = add_segment(segments, segment)
    /\ UNCHANGED <<flag, context, environment, result, enabled, call, ret, history>>

\* flag.with_environment("dev", config): the flag's rules change
Reconfigure(config) ==
    /\ flag' = with_environment(flag, "dev", config)
    /\ UNCHANGED <<segments, context, environment, result, enabled, call, ret, history>>

\* self.is_in_rollout(user_id, flag_key, percentage), as evaluate calls it while
\* it evaluates environment env
IsInRollout(env, percentage) ==
    /\ IsSome(call)
    /\ LET c == Unwrap(call)
           answer == Evaluator_is_in_rollout(segments, c.user_id, c.flag_key, percentage)
           entry == [segments |-> segments, flag |-> flag, environment |-> env,
                     percentage |-> percentage, answer |-> answer]
       IN /\ entry \in history \/ Cardinality(history) < MaxCalls
          /\ ret' = Some(answer)
          /\ history' = history \cup {entry}
    /\ environment' = Some(env)
    /\ UNCHANGED <<segments, flag, context, result, enabled, call>>

NextRollout ==
    \/ AddSegment(with_included_user(with_included_user(Segment_new(1), S_u1), S_u2))
    \/ \E config \in RolloutConfigs : Reconfigure(config)
    \/ \E env \in EnvKeys, percentage \in Percentages : IsInRollout(env, percentage)

SpecRollout == InitRollout /\ [][NextRollout]_vars

\* values of the u8 argument of is_in_rollout, below, at and above 100, and
\* around the bucket 79 of ab-test and u1
U8Percentages ==
    {0, 1, 2, 50, 78, 79, 80, 81, 99, 100, 101, 128, 179, 200, 254, 255}

\* the calls of is_in_rollout over the range of its percentage argument
NextPercent == \E percentage \in U8Percentages : IsInRollout("dev", percentage)

SpecPercent == InitRollout /\ [][NextPercent]_vars

(***************************************************************************)
(* Contexts under construction: attributes are set one by one, the same    *)
(* pairs are inserted again in another order, and effective_user_id() is   *)
(* asked of each.                                                          *)
(***************************************************************************)
InitContext ==
    /\ context \in {EvaluationContext_new, EvaluationContext_with_user_id(S_u1)}
    /\ segments = <<>>
    /\ flag = Flag_new(S_ab_test, FlagType_Boolean)
    /\ environment = None
    /\ result = None
    /\ enabled = None
    /\ call = None
    /\ ret = None
    /\ history = {}

\* context.set(key, value); the answers kept are those of the present content
SetAttribute(key, value) ==
    /\ context' \in rehashed(set(context, key, value))
    /\ ret' = None
    /\ history' = {}
    /\ UNCHANGED <<segments, flag, environment, result, enabled, call>>

\* context.user_id(id)
SetUserId(id) ==
    /\ context' = EvaluationContext_user_id(context, id)
    /\ ret' = None
    /\ history' = {}
    /\ UNCHANGED <<segments, flag, environment, result, enabled, call>>

\* context.remove(key)
Remove(key) ==
    /\ context' \in rehashed(remove(context, key))
    /\ ret' = None
    /\ history' = {}
    /\ UNCHANGED <<segments, flag, environment, result, enabled, call>>

\* context.merge(other)
Merge(other) ==
    /\ context' \in rehashed(merge(context, other))
    /\ ret' = None
    /\ history' = {}
    /\ UNCHANGED <<segments, flag, environment, result, enabled, call>>

\* a context built of the same pairs, inserted in another order
Reinsert ==
    /\ context' \in rehashed(context) \ {context}
    /\ UNCHANGED <<segments, flag, environment, result, enabled, call, ret, history>>

\* context.effective_user_id()
EffectiveUserId ==
    LET id == effective_user_id(context)
        entry == [context |-> context, id |-> id]
    IN /\ entry \in history \/ Cardinality(history) < MaxCalls
       /\ ret' = Some(id)
       /\ history' = history \cup {entry}
       /\ UNCHANGED <<segments, flag, context, environment, result, enabled, call>>

NextContext ==
    \/ \E key \in {S_plan, S_plan2, S_beta},
          value \in {AttributeValue_String(S_pro), AttributeValue_Number(2)} :
            SetAttribute(key, value)
    \/ \E id \in {S_u1, S_u2} : SetUserId(id)
    \/ \E key \in {S_plan, S_plan2, S_beta} : Remove(key)
    \/ \E other \in {EvaluationContext_new,
                      set(EvaluationContext_with_user_id(S_u2), S_plan,
                          AttributeValue_Number(2)),
                      set(set(EvaluationContext_new, S_beta, AttributeValue_String(S_pro)),
                          S_plan, AttributeValue_String(S_pro))} : Merge(other)
    \/ Reinsert
    \/ EffectiveUserId

SpecContext == InitContext /\ [][NextContext]_vars

(***************************************************************************)
(* One evaluator, its segment map fixed, asked again and again about flags *)
(* and contexts in any succession. A context is handed over as one map     *)
(* instance or another of the same content.                                *)
(***************************************************************************)
RepeatFlags ==
    {with_environment(Flag_new(S_ab_test, FlagType_Boolean), "dev",
        Config(TRUE, <<>>, FlagValue_Boolean(TRUE), Some(50))),
     with_environment(Flag_new(S_ab_test, FlagType_Boolean), "dev",
        Config(TRUE,
               <<Rule_with_rollout(Rule_with_condition(
                    TargetingRule_new(1, 1, FlagValue_Boolean(TRUE)),
                    Condition_matches_segment(1)), 50)>>,
               FlagValue_Boolean(FALSE), None))}

RepeatContexts ==
    UNION {rehashed(set(set(c, S_plan, AttributeValue_String(S_pro)),
                        S_beta, AttributeValue_String(S_pro))) :
              c \in {EvaluationContext_new, EvaluationContext_with_user_id(S_u1)}}

InitRepeat ==
    /\ segments \in {<<>>, with_segments(<<Segment_with_rule(Segment_new(1), SegmentRule_new)>>)}
    /\ flag \in RepeatFlags
    /\ context = EvaluationContext_new
    /\ environment = None
    /\ result = None
    /\ enabled = None
    /\ call = None
    /\ ret = None
    /\ history = {}

\* evaluator.evaluate(&f, env, &ctx); history keeps the first MaxCalls calls
EvaluateAgain(f, env, ctx) ==
    LET r == evaluate(segments, f, env, ctx)
        entry == [flag |-> f, environment |-> env, context |-> ctx, result |-> r]
    IN /\ flag' = f
       /\ context' = ctx
       /\ environment' = Some(env)
       /\ result' = Some(r)
       /\ enabled' = None
       /\ history' = IF Cardinality(history) < MaxCalls THEN history \cup {entry} ELSE history
       /\ UNCHANGED <<segments, call, ret>>

NextRepeat ==
    \E f \in RepeatFlags, env \in EnvKeys, ctx \in RepeatContexts : EvaluateAgain(f, env, ctx)

SpecRepeat == InitRepeat /\ [][NextRepeat]_vars

(***************************************************************************)
(* Flag keys: one candidate string, handed to each constructor.            *)
(***************************************************************************)
MaxKeyLen == 2      \* most chars of a candidate key

\* '-', '_', the ends of '0'..'9', 'A'..'Z' and 'a'..'z', their outer
\* neighbours '/', ':', '@', '[', '`', '{', and the non-ASCII letter U+00E9
KeyChars == {45, 95, 48, 57, 65, 90, 97, 122, 47, 58, 64, 91, 96, 123, 233}

InitKey ==
    /\ \E n \in 0..MaxKeyLen : \E key \in [1..n -> KeyChars] : call = Some(key)
    /\ segments = <<>>
    /\ flag = Flag_new(S_ab_test, FlagType_Boolean)
    /\ context = EvaluationContext_new
    /\ environment = None
    /\ result = None
    /\ enabled = None
    /\ ret = None
    /\ history = {}

\* the call op of the candidate of this run has returned or panicked
Returned(op, outcome) ==
    /\ ret' = Some(outcome)
    /\ history' = history \cup {[op |-> op, outcome |-> outcome]}
    /\ UNCHANGED <<segments, flag, context, environment, result, enabled, call>>

\* FlagKey::try_new(key)
TryNew == Returned("try_new", Ok(FlagKey_try_new(Unwrap(call))))

\* FlagKey::new(key)
New == Returned("new", FlagKey_new(Unwrap(call)))

\* Flag::new_boolean(key, ..)
NewBoolean == Returned("new_boolean", Flag_new_boolean(Unwrap(call)))

\* Flag::new_string(key, .., variants, ..)
NewString == Returned("new_string", Flag_new_string(Unwrap(call), <<"variant-a">>))

NextKey == TryNew \/ New \/ NewBoolean \/ NewString

SpecKey == InitKey /\ [][NextKey]_vars

(***************************************************************************)
(* The offline SDK client, preloaded with one flag and no segment, asked   *)
(* for the boolean value of that flag and of a flag it does not hold.      *)
(***************************************************************************)
InitClient ==
    /\ flag \in {Flag_new(S_ab_test, type) : type \in FlagTypes}
                \cup {with_environment(Flag_new(S_ab_test, type), env,
                                       Config(en, <<>>, default, None)) :
                         type \in FlagTypes, env \in EnvKeys, en \in BOOLEAN,
                         default \in {FlagValue_Boolean(TRUE), FlagValue_Boolean(FALSE),
                                      FlagValue_String("on")}}
    /\ context \in {EvaluationContext_new, EvaluationContext_with_user_id(S_u1)}
    /\ segments = <<>>
    /\ environment = None
    /\ result = None
    /\ enabled = None
    /\ call = None
    /\ ret = None
    /\ history = {}

\* client.get_bool(flag_key, &context, default); result is the evaluation
\* behind the answer
GetBool(flag_key, default) ==
    LET client == FlapsClient_offline(<<flag>>, <<>>)
    IN /\ call' = Some([op |-> "get_bool", flag_key |-> flag_key, default |-> default])
       /\ ret' = Some(FlapsClient_get_bool(client, flag_key, context, default))
       /\ result' = Some(FlapsClient_evaluate(client, flag_key, context))
       /\ environment' = Some(client.config.environment)
       /\ enabled' = None
       /\ UNCHANGED <<segments, flag, context, history>>

NextClient ==
    \E flag_key \in {S_ab_test, S_premium_feature}, default \in BOOLEAN :
        GetBool(flag_key, default)

SpecClient == InitClient /\ [][NextClient]_vars

(***************************************************************************)
(* One condition on the attribute "plan": every operator, every variant of *)
(* the operand, and a context in which "plan" is absent or holds a value   *)
(* of any variant. "beta" is always set to "pro".                          *)
(***************************************************************************)
AttributeValues ==
    {AttributeValue_String(S_pro), AttributeValue_String(<<>>),
     AttributeValue_Number(1), AttributeValue_Number(2),
     AttributeValue_Boolean(TRUE), AttributeValue_Boolean(FALSE),
     AttributeValue_StringList(<<S_pro>>), AttributeValue_StringList(<<>>),
     AttributeValue_SegmentRef(1)}

InitCondition ==
    /\ \E actual \in {None} \cup {Some(v) : v \in AttributeValues},
          operator \in Operator, expected \in AttributeValues :
          /\ call = Some([actual |-> actual,
                          condition |-> Condition_new(S_plan, operator, expected)])
          /\ context \in
                rehashed(LET c == set(EvaluationContext_with_user_id(S_u1), S_beta,
                                      AttributeValue_String(S_pro))
                         IN IF actual = None THEN c ELSE set(c, S_plan, Unwrap(actual)))
    /\ segments = with_segments(<<Segment_with_rule(Segment_new(1), SegmentRule_new)>>)
    /\ flag = Flag_new(S_ab_test, FlagType_Boolean)
    /\ environment = None
    /\ result = None
    /\ enabled = None
    /\ ret = None
    /\ history = {}

\* self.compare_values(attr_value, &condition.operator, &condition.value)
CompareValues ==
    /\ IsSome(Unwrap(call).actual)
    /\ LET c == Unwrap(call).condition
       IN Returned("compare_values",
                   Ok(compare_values(Unwrap(Unwrap(call).actual), c.operator, c.value)))

\* self.evaluate_condition(&condition, &context)
EvaluateCondition ==
    Returned("evaluate_condition",
             Ok(evaluate_condition(segments, Unwrap(call).condition, context)))

\* self.evaluate_rule(&rule, &context) of a rule holding the condition after
\* or before a condition that matches
EvaluateRule(first) ==
    LET holds == Condition_equals(S_beta, AttributeValue_String(S_pro))
        c == Unwrap(call).condition
        rule == [TargetingRule_new(1, 1, FlagValue_Boolean(TRUE)) EXCEPT
                    !.conditions = IF first THEN <<c, holds>> ELSE <<holds, c>>]
    IN Returned("evaluate_rule", Ok(evaluate_rule(segments, rule, context)))

NextCondition ==
    \/ CompareValues
    \/ EvaluateCondition
    \/ \E first \in BOOLEAN : EvaluateRule(first)

SpecCondition == InitCondition /\ [][NextCondition]_vars

(***************************************************************************)
(* The evaluator's segment map between construction and evaluation: a       *)
(* caller that owns the evaluator adds segments and evaluates.              *)
(***************************************************************************)
\* the segments a caller adds: two segments of id 1 and one of id 2
AddedSegments ==
    {with_included_user(Segment_new(1), S_u1),
     Segment_with_rule(Segment_new(1), SegmentRule_single(Cond_plan_pro)),
     Segment_with_rule(Segment_new(2), SegmentRule_new)}

\* Evaluator::new() or Evaluator::with_segments(vec![segment]), and a flag
\* whose rule targets segment 1 or 2
InitSegments ==
    /\ segments \in {<<>>, with_segments(<<with_included_user(Segment_new(1), S_u2)>>)}
    /\ \E op \in {"MatchesSegment", "NotMatchesSegment"}, sid \in {1, 2} :
          flag = with_environment(Flag_new(S_ab_test, FlagType_Boolean), "dev",
                     Config(TRUE,
                            <<Rule_with_condition(
                                 TargetingRule_new(1, 1, FlagValue_Boolean(TRUE)),
                                 Condition_new(<<>>, op, AttributeValue_SegmentRef(sid)))>>,
                            FlagValue_Boolean(FALSE), None))
    /\ context \in Contexts({Some(S_u1)}, {None, Some(S_pro)})
    /\ environment = None
    /\ result = None
    /\ enabled = None
    /\ call = None
    /\ ret = None
    /\ history = {}

NextSegments ==
    \/ \E segment \in AddedSegments : AddSegment(segment)
    \/ \E env \in EnvKeys : Evaluate(env)
    \/ IsEnabled

SpecSegments == InitSegments /\ [][NextSegments]_vars

(***************************************************************************)
(* Evaluation over segment maps whose segments refer to segments.           *)
(***************************************************************************)
\* the conditions of a segment rule: on the plan, on a segment, or both
ReferringRules ==
    {<<SegmentRule_single(Condition_new(<<>>, op, AttributeValue_SegmentRef(sid)))>> :
        op \in {"MatchesSegment", "NotMatchesSegment"}, sid \in {1, 2}}
    \cup {<<[conditions |-> <<Cond_plan_pro,
                              Condition_new(<<>>, "MatchesSegment",
                                            AttributeValue_SegmentRef(1))>>]>>,
          <<SegmentRule_new>>}

\* segment 1 refers to itself or to segment 2, which refers to segment 1 or to
\* no segment; segment 1 lists u1 as included and u2 as excluded
InitCycle ==
    /\ \E r1 \in ReferringRules, r2 \in ReferringRules :
          segments = with_segments(
              <<[id |-> 1, rules |-> r1, included_users |-> <<S_u1>>,
                 excluded_users |-> <<S_u2>>],
                [id |-> 2, rules |-> r2, included_users |-> <<>>,
                 excluded_users |-> <<>>]>>)
    /\ \E op \in {"MatchesSegment", "NotMatchesSegment"}, en \in BOOLEAN :
          flag = with_environment(Flag_new(S_ab_test, FlagType_Boolean), "dev",
                     Config(en,
                            <<Rule_with_condition(
                                 TargetingRule_new(1, 1, FlagValue_Boolean(TRUE)),
                                 Condition_new(<<>>, op, AttributeValue_SegmentRef(1)))>>,
                            FlagValue_Boolean(FALSE), None))
    /\ context \in Contexts({None, Some(S_u1), Some(S_u2)}, {None, Some(S_pro)})
    /\ environment = None
    /\ result = None
    /\ enabled = None
    /\ call = None
    /\ ret = None
    /\ history = {}

\* evaluator.evaluate(&flag, env, &context) on a stack of MaxStack frames
EvaluateOnStack(env) ==
    /\ ret' = Some(evaluate_on_stack(segments, flag, env, context, MaxStack))
    /\ result' = IF Unwrap(ret').tag = "Ok" THEN Some(Unwrap(ret').value) ELSE None
    /\ environment' = Some(env)
    /\ enabled' = None
    /\ UNCHANGED <<segments, flag, context, call, history>>

NextCycle == \E env \in EnvKeys : EvaluateOnStack(env)

SpecCycle == InitCycle /\ [][NextCycle]_vars

(***************************************************************************)
(* Vocabulary of the properties.                                           *)
(***************************************************************************)
Called == IsSome(result)
Res == Unwrap(result)
Env == Unwrap(environment)
HasEnv == Called /\ Env \in DOMAIN flag.environments
Cfg == flag.environments[Env]
Disabled == HasEnv /\ ~Cfg.enabled
EnabledCall == HasEnv /\ Cfg.enabled

\* the flag-type default, as the specification words it
TypeDefault ==
    IF flag.flag_type.tag = "Boolean" THEN FlagValue_Boolean(FALSE)
    ELSE IF Len(flag.flag_type.variants) > 0
         THEN FlagValue_String(flag.flag_type.variants[1])
         ELSE FlagValue_String("")

\* the user's bucket, of flag.key and the effective user id, is below p
UserIn(p) == is_in_rollout(effective_user_id(context), flag.key, p)

RuleMatches(r) == evaluate_rule(segments, r, context)

\* the rule's conditions match and its rollout, if any, includes the user
Applies(r) ==
    /\ RuleMatches(r)
    /\ IsSome(r.rollout_percentage) => UserIn(Unwrap(r.rollout_percentage))

\* the rule's conditions match and its rollout excludes the user
RolledOut(r) ==
    /\ RuleMatches(r)
    /\ IsSome(r.rollout_percentage)
    /\ ~UserIn(Unwrap(r.rollout_percentage))

\* the rule stored at i is tried before the rule stored at j
Before(i, j) ==
    \/ Cfg.rules[i].priority < Cfg.rules[j].priority
    \/ Cfg.rules[i].priority = Cfg.rules[j].priority /\ i < j

\* the positions of the first rule, in the order of trial, that applies
FirstApplying ==
    {i \in 1..Len(Cfg.rules) :
        /\ Applies(Cfg.rules[i])
        /\ \A j \in 1..Len(Cfg.rules) : Before(j, i) => ~Applies(Cfg.rules[j])}

\* the flag with the rule stored at i taken out of the evaluated environment
FlagWithout(i) ==
    [flag EXCEPT !.environments[Env].rules =
        SubSeq(@, 1, i - 1) \o SubSeq(@, i + 1, Len(@))]

(***************************************************************************)
(* Properties.                                                             *)
(***************************************************************************)

\* C1: kill switch. When the environment looked up by evaluate is disabled,
\* is_enabled() of the returned result is false, whatever the flag type, the
\* context and the returned value are.
C1_KillSwitch ==
    (Disabled /\ IsSome(enabled)) => Unwrap(enabled) = FALSE

C1_Witness ==
    /\ Disabled
    /\ Res.value.tag = "String"
    /\ Res.value.s /= ""
    /\ enabled = Some(FALSE)

\* C2: the rule named in a TargetingMatch result is the first rule, by
\* ascending priority and then by declaration order, whose conditions match
\* and whose rollout (if any) includes the user; its value is returned.
C2_PriorityOrder ==
    (EnabledCall /\ Res.reason = "TargetingMatch") =>
        \E i \in FirstApplying :
            /\ Res.rule_id = Some(Cfg.rules[i].id)
            /\ Res.value = Cfg.rules[i].value

C2_Witness ==
    /\ EnabledCall
    /\ Len(Cfg.rules) = 2
    /\ Cfg.rules[1].priority = 2
    /\ Cfg.rules[2].priority = 1
    /\ \A i \in 1..2 : RuleMatches(Cfg.rules[i]) /\ Cfg.rules[i].rollout_percentage = None
    /\ Res.rule_id = Some(Cfg.rules[2].id)
    /\ Res.value = Cfg.rules[2].value

\* C3: a rule whose conditions match but whose rollout excludes the user is
\* skipped: the result does not name it and is the result of evaluating the
\* flag with that rule taken out of the list.
C3_RolloutSkip ==
    EnabledCall =>
        \A i \in 1..Len(Cfg.rules) :
            RolledOut(Cfg.rules[i]) =>
                /\ Res.rule_id /= Some(Cfg.rules[i].id)
                /\ Res = evaluate(segments, FlagWithout(i), Env, context)

C3_Witness ==
    /\ EnabledCall
    /\ \E i, j \in 1..Len(Cfg.rules) :
          /\ RolledOut(Cfg.rules[i])
          /\ Before(i, j)
          /\ Res.reason = "TargetingMatch"
          /\ Res.rule_id = Some(Cfg.rules[j].id)

\* C4: for the first rule that applies, the result is TargetingMatch with
\* that rule's value and id, in_rollout None without a rollout percentage and
\* Some(true) with one; nothing else influences the result.
C4_TargetingMatch ==
    EnabledCall =>
        \A i \in FirstApplying :
            Res = [value |-> Cfg.rules[i].value,
                   reason |-> "TargetingMatch",
                   rule_id |-> Some(Cfg.rules[i].id),
                   in_rollout |-> IF IsSome(Cfg.rules[i].rollout_percentage)
                                  THEN Some(TRUE) ELSE None]

C4_Witness ==
    /\ EnabledCall
    /\ Len(Cfg.rules) >= 2
    /\ IsSome(Cfg.rollout_percentage)
    /\ \E i \in FirstApplying :
          /\ IsSome(Cfg.rules[i].rollout_percentage)
          /\ \E j \in 1..Len(Cfg.rules) : Before(i, j) /\ Applies(Cfg.rules[j])
    /\ Res.reason = "TargetingMatch"
    /\ Res.in_rollout = Some(TRUE)

\* C5: a disabled environment gives FlagDisabled with the flag-type default
\* (false, the first variant, or the empty string), rule_id None and
\* in_rollout None, whatever the environment's default, rules and rollout are.
C5_Disabled ==
    Disabled =>
        Res = [value |-> TypeDefault, reason |-> "FlagDisabled",
               rule_id |-> None, in_rollout |-> None]

C5_Witness ==
    /\ Disabled
    /\ Cfg.default_value = FlagValue_String("on")
    /\ Len(Cfg.rules) > 0
    /\ IsSome(Cfg.rollout_percentage)
    /\ Res.reason = "FlagDisabled"
    /\ Res.value = FlagValue_String("variant-a")

\* C6: an environment key that is no key of flag.environments gives
\* EnvironmentNotFound with value Boolean(false), rule_id None and in_rollout
\* None, and is_enabled() of that result is false.
C6_EnvironmentNotFound ==
    (Called /\ ~HasEnv) =>
        /\ Res = [value |-> FlagValue_Boolean(FALSE), reason |-> "EnvironmentNotFound",
                  rule_id |-> None, in_rollout |-> None]
        /\ IsSome(enabled) => Unwrap(enabled) = FALSE

C6_Witness ==
    /\ Called
    /\ ~HasEnv
    /\ DOMAIN flag.environments /= {}
    /\ flag.flag_type.tag = "String"
    /\ Res.reason = "EnvironmentNotFound"
    /\ enabled = Some(FALSE)

\* C7: in an enabled environment where no rule applies and a global rollout
\* percentage is set, the result is RolloutIncluded with the environment's
\* default and in_rollout Some(true) when the user is in the rollout, and
\* RolloutExcluded with the flag-type default and in_rollout Some(false)
\* otherwise; rule_id is None.
C7_GlobalRollout ==
    (EnabledCall /\ FirstApplying = {} /\ IsSome(Cfg.rollout_percentage)) =>
        Res = IF UserIn(Unwrap(Cfg.rollout_percentage))
              THEN [value |-> Cfg.default_value, reason |-> "RolloutIncluded",
                    rule_id |-> None, in_rollout |-> Some(TRUE)]
              ELSE [value |-> TypeDefault, reason |-> "RolloutExcluded",
                    rule_id |-> None, in_rollout |-> Some(FALSE)]

C7_Witness ==
    /\ EnabledCall
    /\ Len(Cfg.rules) > 0
    /\ Res.reason = "RolloutExcluded"
    /\ Res.value /= Cfg.default_value
    /\ Res.in_rollout = Some(FALSE)

\* C8: in an enabled environment where no rule applies and no global rollout
\* percentage is set, the result is Default with the environment's default,
\* rule_id None and in_rollout None.
C8_Default ==
    (EnabledCall /\ FirstApplying = {} /\ Cfg.rollout_percentage = None) =>
        Res = [value |-> Cfg.default_value, reason |-> "Default",
               rule_id |-> None, in_rollout |-> None]

C8_Witness ==
    /\ EnabledCall
    /\ \E i \in 1..Len(Cfg.rules) : RolledOut(Cfg.rules[i])
    /\ Res.reason = "Default"
    /\ Res.value = FlagValue_String("on")

\* C9: is_enabled() is decided by the reason and the value alone: false for
\* FlagDisabled, FlagNotFound, EnvironmentNotFound, RolloutExcluded and
\* Error, and otherwise true exactly for boolean true and non-empty strings.
C9_IsEnabled ==
    IsSome(enabled) =>
        Unwrap(enabled) =
            (/\ Res.reason \in {"Default", "TargetingMatch", "RolloutIncluded"}
             /\ \/ Res.value = FlagValue_Boolean(TRUE)
                \/ Res.value.tag = "String" /\ Res.value.s /= "")

C9_Witness ==
    /\ Res.reason = "Error"
    /\ Res.value = FlagValue_String("on")
    /\ Res.rule_id = Some(1)
    /\ enabled = Some(FALSE)

\* C10: a context whose user id is in a segment's excluded_users is no
\* member of it, even when the id is in included_users as well or a rule of
\* the segment matches the context.
C10_ExclusionVeto ==
    \A sid \in DOMAIN segments :
        (IsSome(context.user_id) /\ is_excluded(segments[sid], Unwrap(context.user_id)))
            => ~evaluate_segment_membership(segments, sid, context)

C10_Witness ==
    /\ EnabledCall
    /\ \E sid \in DOMAIN segments :
          /\ IsSome(context.user_id)
          /\ is_excluded(segments[sid], Unwrap(context.user_id))
          /\ is_included(segments[sid], Unwrap(context.user_id))
          /\ any_segment_rule(segments, segments[sid].rules, context)
          /\ Len(Cfg.rules) = 1
          /\ Cfg.rules[1].conditions = <<Condition_matches_segment(sid)>>
    /\ Res.reason = "Default"

\* C12: at percentage 0 is_in_rollout answers false and at percentage 100 it
\* answers true, for every user id and flag key, the user of bucket 0 included.
C12_RolloutBoundaries ==
    \A a \in history :
        /\ a.percentage = 0 => ~a.answer
        /\ a.percentage = 100 => a.answer

C12_Witness ==
    /\ Mod100(murmur3_hash(Unwrap(call).flag_key \o Unwrap(call).user_id)) = 0
    /\ \E a, b \in history :
          /\ a.percentage = 0 /\ ~a.answer
          /\ b.percentage = 100 /\ b.answer

\* the conditions of the flag's rules that use a segment operator on a
\* segment id the evaluator's map does not hold
UnknownSegmentConditions ==
    {c \in UNION {{r.conditions[j] : j \in DOMAIN r.conditions} :
                    r \in UNION {{flag.environments[e].rules[i] :
                                     i \in DOMAIN flag.environments[e].rules} :
                                 e \in DOMAIN flag.environments}} :
        /\ c.operator \in {"MatchesSegment", "NotMatchesSegment"}
        /\ IsSome(as_segment_ref(c.value))
        /\ Unwrap(as_segment_ref(c.value)) \notin DOMAIN segments}

\* C13: a condition that references a segment id absent from the evaluator's
\* segment map evaluates to false, be its operator MatchesSegment or
\* NotMatchesSegment.
C13_UnknownSegmentFalse ==
    Called => \A c \in UnknownSegmentConditions : ~evaluate_condition(segments, c, context)

\* the rendering "key:value" of one attribute of a context
Part(ctx, key) == key \o <<58>> \o DebugAttributeValue(ctx.attributes[key])

\* C14: effective_user_id() is decided by the content of the context. With a
\* user id it is that id, whatever the attributes; without one it is
\* "anonymous:" and the comma-joined renderings of the attributes in
\* ascending order, so contexts of the same pairs in different orders get the
\* same id.
C14_EffectiveUserId ==
    /\ \A a \in history :
          IF IsSome(a.context.user_id) THEN a.id = Unwrap(a.context.user_id)
          ELSE \E o \in IterationOrders(DOMAIN a.context.attributes) :
                  /\ \A i, j \in DOMAIN o :
                        i < j => StrLess(Part(a.context, o[i]), Part(a.context, o[j]))
                  /\ a.id = S_anonymous
                            \o Join([i \in DOMAIN o |-> Part(a.context, o[i])], <<44>>)
    /\ \A a, b \in history :
          (a.context.user_id = b.context.user_id
           /\ a.context.attributes = b.context.attributes) => a.id = b.id

C14_Witness ==
    \E a, b \in history :
        /\ a.context.user_id = None
        /\ DOMAIN a.context.attributes = {S_plan, S_plan2, S_beta}
        /\ a.context.attributes = b.context.attributes
        /\ a.context.order = <<S_plan, S_plan2, S_beta>>
        /\ b.context.order = <<S_plan2, S_beta, S_plan>>
        /\ a.id = b.id

\* C15: for a fixed segment map, evaluate calls on equal flags, environment
\* keys and contexts (equal user id and equal attribute pairs) return equal
\* results, whatever calls were made in between.
C15_ReferentiallyTransparent ==
    \A a, b \in history :
        (/\ a.flag = b.flag
         /\ a.environment = b.environment
         /\ a.context.user_id = b.context.user_id
         /\ a.context.attributes = b.context.attributes) => a.result = b.result

C15_Witness ==
    /\ \E a, b \in history :
          /\ a.flag = b.flag
          /\ a.environment = "dev" /\ b.environment = "dev"
          /\ a.context.user_id = None /\ b.context.user_id = None
          /\ a.context.order = <<S_plan, S_beta>>
          /\ b.context.order = <<S_beta, S_plan>>
          /\ a.result.in_rollout = Some(FALSE)
          /\ a.result = b.result
    /\ IsSome(context.user_id)
    /\ Res.reason = "Default"
    /\ [flag |-> flag, environment |-> Env, context |-> context, result |-> Res] \notin history

\* a non-empty string of ASCII letters, digits, hyphens and underscores
ValidKey(key) ==
    /\ Len(key) > 0
    /\ \A i \in DOMAIN key :
          key[i] \in 65..90 \cup 97..122 \cup 48..57 \cup {45, 95}

\* C16: FlagKey::try_new returns Some, of the string itself, for the
\* non-empty strings of ASCII letters, digits, hyphens and underscores and
\* None for every other string; FlagKey::new, and with it Flag::new_boolean
\* and Flag::new_string, panics exactly when try_new returns None, and a
\* flag that is built carries the key.
C16_FlagKeyValidation ==
    \A e \in history :
        /\ e.op = "try_new" =>
              e.outcome = Ok(IF ValidKey(Unwrap(call)) THEN Some(Unwrap(call)) ELSE None)
        /\ e.op = "new" =>
              \A t \in history :
                  t.op = "try_new" => (e.outcome.tag = "Panic" <=> t.outcome.value = None)
        /\ e.op \in {"new_boolean", "new_string"} =>
              /\ \A n \in history :
                    n.op = "new" => (e.outcome.tag = "Panic" <=> n.outcome.tag = "Panic")
              /\ e.outcome.tag = "Ok" =>
                    e.outcome.value.key = Unwrap(call) /\ ValidKey(Unwrap(call))

C16_Witness ==
    /\ call = Some(<<97, 233>>)
    /\ [op |-> "try_new", outcome |-> Ok(None)] \in history
    /\ \E e, b \in history :
          /\ e.op = "new" /\ e.outcome.tag = "Panic"
          /\ b.op = "new_boolean" /\ b.outcome.tag = "Panic"

\* C17: get_bool returns the caller's default when the client holds no flag
\* of the key, when the flag has no configuration for the client's
\* environment, and when the flag is disabled in that environment; in every
\* other case it returns the boolean value the evaluation gave.
C17_GetBoolDefault ==
    (IsSome(call) /\ Unwrap(call).op = "get_bool") =>
        LET c == Unwrap(call)
        IN IF \/ c.flag_key /= flag.key
              \/ Env \notin DOMAIN flag.environments
              \/ ~Cfg.enabled
           THEN ret = Some(c.default)
           ELSE Res.value.tag = "Boolean" => ret = Some(Res.value.b)

\* the variants of actual and expected value the operator compares
Comparable(operator, actual, expected) ==
    CASE operator \in {"Equals", "NotEquals"} ->
            actual.tag = expected.tag /\ actual.tag \in {"String", "Number", "Boolean"}
      [] operator \in {"Contains", "StartsWith", "EndsWith",
                       "SemverGreaterThan", "SemverLessThan", "Regex"} ->
            actual.tag = "String" /\ expected.tag = "String"
      [] operator \in {"In", "NotIn"} ->
            actual.tag = "String" /\ expected.tag = "StringList"
      [] operator \in {"GreaterThan", "GreaterThanOrEqual", "LessThan", "LessThanOrEqual"} ->
            actual.tag = "Number" /\ expected.tag = "Number"
      [] OTHER -> FALSE

\* the comparison made of a value of a variant the operator does not compare
Mismatched ==
    /\ IsSome(call)
    /\ IsSome(Unwrap(call).actual)
    /\ ~Comparable(Unwrap(call).condition.operator, Unwrap(Unwrap(call).actual),
                   Unwrap(call).condition.value)

\* C18, as claimed: every operator returns false when the actual value and
\* the expected operand are of variants it does not compare.
C18_MismatchFalse ==
    \A e \in history :
        (e.op = "compare_values" /\ Mismatched) => e.outcome = Ok(FALSE)

\* C18, amended: on variants it does not compare every operator returns
\* false, except NotEquals and NotIn, which return true as the negations of
\* Equals and In; no comparison fails.
C18_MismatchFalseOrNegated ==
    \A e \in history :
        (e.op = "compare_values" /\ Mismatched) =>
            e.outcome = Ok(Unwrap(call).condition.operator \in {"NotEquals", "NotIn"})

C18_Witness ==
    /\ Mismatched
    /\ Unwrap(call).condition.operator = "NotEquals"
    /\ Unwrap(call).actual = Some(AttributeValue_Boolean(TRUE))
    /\ Unwrap(call).condition.value = AttributeValue_Number(1)
    /\ [op |-> "compare_values", outcome |-> Ok(TRUE)] \in history

\* C19: a condition of any operator but the two segment operators, on an
\* attribute the context does not hold, evaluates to false, NotEquals and
\* NotIn included, and so does every rule that holds the condition.
C19_MissingAttribute ==
    \A e \in history :
        (/\ Unwrap(call).actual = None
         /\ Unwrap(call).condition.operator \notin {"MatchesSegment", "NotMatchesSegment"}
         /\ e.op \in {"evaluate_condition", "evaluate_rule"}) => e.outcome = Ok(FALSE)

C19_Witness ==
    /\ Unwrap(call).actual = None
    /\ Unwrap(call).condition.operator = "NotIn"
    /\ Unwrap(call).condition.value = AttributeValue_Number(1)
    /\ [op |-> "evaluate_condition", outcome |-> Ok(FALSE)] \in history
    /\ [op |-> "evaluate_rule", outcome |-> Ok(FALSE)] \in history

\* C20: for a context without user id, or whose user id is not in the
\* segment's excluded_users, the context is a member exactly when its user
\* id is in included_users or all conditions of one of the segment's rules
\* match; without user id the two lists play no part.
C20_Membership ==
    \A sid \in DOMAIN segments :
        LET s == segments[sid]
            listed(users) ==
                /\ IsSome(context.user_id)
                /\ \E i \in DOMAIN users : users[i] = Unwrap(context.user_id)
            by_rule ==
                \E i \in DOMAIN s.rules :
                    \A j \in DOMAIN s.rules[i].conditions :
                        evaluate_condition(segments, s.rules[i].conditions[j], context)
        IN ~listed(s.excluded_users) =>
              (evaluate_segment_membership(segments, sid, context)
                  <=> (listed(s.included_users) \/ by_rule))

C20_Witness ==
    /\ EnabledCall
    /\ context = EvaluationContext_new
    /\ \E sid \in DOMAIN segments :
          /\ segments[sid].excluded_users = <<effective_user_id(context)>>
          /\ segments[sid].rules = <<SegmentRule_new>>
          /\ Cfg.rules[1].conditions = <<Condition_matches_segment(sid)>>
    /\ Res.reason = "TargetingMatch"
\* the bucket of the call under check: the 32-bit hash of the flag key
\* followed by the user id, modulo 100
Bucket == Mod100(murmur3_hash(Unwrap(call).flag_key \o Unwrap(call).user_id))

\* C21: for a percentage strictly between 0 and 100, is_in_rollout answers
\* true exactly when the bucket, the unsigned 32-bit hash of the flag key
\* followed by the user id taken modulo 100, is below the percentage; the
\* bucket is an integer of 0..99.
C21_RolloutBucket ==
    /\ Bucket \in 0..99
    /\ \A a \in history :
          (0 < a.percentage /\ a.percentage < 100)
              => (a.answer <=> Bucket < a.percentage)

C21_Witness ==
    /\ Unwrap(call).flag_key = S_premium_feature
    /\ Unwrap(call).user_id = S_u2
    /\ \E a, b \in history :
          /\ a.percentage = 1 /\ a.answer
          /\ b.percentage = 80 /\ b.answer

\* C22: when the expected operand is not a string list, NotIn returns true
\* and In returns false, whatever the actual value is; when it is a string
\* list and the actual value is a string, In tells whether the string is an
\* element of the list and NotIn returns the negation.
C22_NotInAsymmetry ==
    \A e \in history :
        e.op = "compare_values" =>
            LET actual == Unwrap(Unwrap(call).actual)
                operator == Unwrap(call).condition.operator
                expected == Unwrap(call).condition.value
                element == \E i \in DOMAIN expected.list : expected.list[i] = actual.s
            IN /\ (operator = "NotIn" /\ expected.tag /= "StringList")
                      => e.outcome = Ok(TRUE)
               /\ (operator = "In" /\ expected.tag /= "StringList")
                      => e.outcome = Ok(FALSE)
               /\ (operator = "In" /\ expected.tag = "StringList" /\ actual.tag = "String")
                      => e.outcome = Ok(element)
               /\ (operator = "NotIn" /\ expected.tag = "StringList" /\ actual.tag = "String")
                      => e.outcome = Ok(~element)

C22_Witness ==
    /\ Unwrap(call).condition.operator = "NotIn"
    /\ Unwrap(call).actual = Some(AttributeValue_String(S_pro))
    /\ Unwrap(call).condition.value = AttributeValue_String(S_pro)
    /\ [op |-> "compare_values", outcome |-> Ok(TRUE)] \in history

\* C24: a condition whose operator is SemverGreaterThan, SemverLessThan or
\* Regex evaluates to false for every attribute value, present or missing,
\* and every operand: the comparison returns false, the condition evaluates
\* to false, and a rule that holds the condition does not match.
C24_UnimplementedFalse ==
    \A e \in history :
        Unwrap(call).condition.operator \in {"SemverGreaterThan", "SemverLessThan", "Regex"}
            => e.outcome = Ok(FALSE)

C24_Witness ==
    /\ Unwrap(call).condition.operator = "Regex"
    /\ Unwrap(call).actual = Some(AttributeValue_String(S_pro))
    /\ Unwrap(call).condition.value = AttributeValue_String(S_pro)
    /\ history = {[op |-> "compare_values", outcome |-> Ok(FALSE)],
                   [op |-> "evaluate_condition", outcome |-> Ok(FALSE)],
                   [op |-> "evaluate_rule", outcome |-> Ok(FALSE)]}

\* C23: a rule with zero conditions matches every context, the context
\* without user id and attributes included: in an enabled environment that
\* holds such a rule without rollout the result is TargetingMatch, naming
\* that rule or a rule tried before it.
C23_CatchAll ==
    EnabledCall =>
        \A i \in 1..Len(Cfg.rules) :
            (Cfg.rules[i].conditions = <<>> /\ Cfg.rules[i].rollout_percentage = None)
                => /\ Res.reason = "TargetingMatch"
                   /\ \/ Res.rule_id = Some(Cfg.rules[i].id)
                      \/ \E j \in 1..Len(Cfg.rules) :
                            Before(j, i) /\ Res.rule_id = Some(Cfg.rules[j].id)

C23_Witness ==
    /\ EnabledCall
    /\ context = EvaluationContext_new
    /\ Cfg.rollout_percentage = Some(0)
    /\ Cfg.default_value = FlagValue_String("on")
    /\ \E i \in 1..Len(Cfg.rules) :
          /\ Cfg.rules[i].conditions = <<>>
          /\ Cfg.rules[i].rollout_percentage = None
          /\ Res.reason = "TargetingMatch"
          /\ Res.rule_id = Some(Cfg.rules[i].id)
          /\ Res.value = Cfg.rules[i].value

\* C25: the evaluator's segment map is fixed at construction: after
\* Evaluator::new or Evaluator::with_segments no operation of the evaluator
\* changes the map from segment id to segment.
C25_MapFixed == [][segments' = segments]_vars

\* C26: evaluate returns a result for every flag, context and segment map,
\* the maps included in which a segment's rule refers to the segment itself
\* or closes a cycle of segments.
C26_Terminates == IsSome(ret) => Unwrap(ret).tag = "Ok"

\* C27: every result of evaluate has one of the reasons EnvironmentNotFound,
\* FlagDisabled, TargetingMatch, RolloutIncluded, RolloutExcluded and Default;
\* rule_id is present exactly for TargetingMatch and is then the id of a rule
\* of the evaluated environment whose conditions all match the context;
\* in_rollout is Some(true) for RolloutIncluded, Some(false) for
\* RolloutExcluded, None for Default, FlagDisabled and EnvironmentNotFound,
\* and not Some(false) for TargetingMatch.
C27_ResultShape ==
    Called =>
        /\ Res.reason \in {"EnvironmentNotFound", "FlagDisabled", "TargetingMatch",
                            "RolloutIncluded", "RolloutExcluded", "Default"}
        /\ IsSome(Res.rule_id) <=> Res.reason = "TargetingMatch"
        /\ Res.reason = "TargetingMatch" =>
              /\ EnabledCall
              /\ \E i \in 1..Len(Cfg.rules) :
                    /\ Cfg.rules[i].id = Unwrap(Res.rule_id)
                    /\ \A j \in 1..Len(Cfg.rules[i].conditions) :
                          evaluate_condition(segments, Cfg.rules[i].conditions[j], context)
              /\ Res.in_rollout /= Some(FALSE)
        /\ Res.reason = "RolloutIncluded" => Res.in_rollout = Some(TRUE)
        /\ Res.reason = "RolloutExcluded" => Res.in_rollout = Some(FALSE)
        /\ Res.reason \in {"Default", "FlagDisabled", "EnvironmentNotFound"}
              => Res.in_rollout = None

C27_Witness ==
    /\ EnabledCall
    /\ Len(Cfg.rules) = 2
    /\ IsSome(Cfg.rollout_percentage)
    /\ \E i, j \in 1..2 :
          /\ Before(i, j)
          /\ RolledOut(Cfg.rules[i])
          /\ Cfg.rules[j].conditions /= <<>>
          /\ Cfg.rules[j].rollout_percentage = None
          /\ Res.rule_id = Some(Cfg.rules[j].id)
    /\ Res.reason = "TargetingMatch"
    /\ Res.in_rollout = None

\* C28: all rollout checks of one evaluation use one bucket, that of the
\* flag key and the effective user id. When a rule whose conditions match
\* rejects the user at its rollout percentage p and the environment's global
\* rollout is q <= p, the result is not RolloutIncluded, and it is
\* RolloutExcluded when no rule applies.
C28_OneBucket ==
    EnabledCall =>
        \A i \in 1..Len(Cfg.rules) :
            (/\ RolledOut(Cfg.rules[i])
             /\ IsSome(Cfg.rollout_percentage)
             /\ Unwrap(Cfg.rollout_percentage) <= Unwrap(Cfg.rules[i].rollout_percentage))
                => /\ Res.reason /= "RolloutIncluded"
                   /\ FirstApplying = {} => Res.reason = "RolloutExcluded"

C28_Witness ==
    /\ EnabledCall
    /\ Cfg.rollout_percentage = Some(30)
    /\ Len(Cfg.rules) = 2
    /\ \A i \in 1..2 :
          /\ Cfg.rules[i].rollout_percentage = Some(50)
          /\ RolledOut(Cfg.rules[i])
    /\ Cfg.rules[1].conditions /= Cfg.rules[2].conditions
    /\ Res.reason = "RolloutExcluded"
    /\ Res.in_rollout = Some(FALSE)

\* C29: for one user id and flag key is_in_rollout is monotone in the
\* percentage over the values of a u8: an answer of true for p is an answer
\* of true for every p' >= p, and a percentage above 100 answers as 100 does.
C29_Monotone ==
    /\ \A a, b \in history : (a.percentage <= b.percentage /\ a.answer) => b.answer
    /\ \A a \in history : a.percentage > 100 => a.answer

C29_Witness ==
    /\ Bucket = 79
    /\ \E a, b \in history :
          /\ a.percentage = 80 /\ a.answer
          /\ b.percentage = 179 /\ b.answer

\* C30: a segment that holds a rule with zero conditions counts every
\* context as a member, the context without user id and attributes included,
\* unless the context's user id is in excluded_users; a flag rule on
\* MatchesSegment of that segment then matches and one on NotMatchesSegment
\* does not.
C30_EmptySegmentRule ==
    \A sid \in DOMAIN segments :
        (/\ \E i \in DOMAIN segments[sid].rules : segments[sid].rules[i].conditions = <<>>
         /\ ~(/\ IsSome(context.user_id)
               /\ \E i \in DOMAIN segments[sid].excluded_users :
                     segments[sid].excluded_users[i] = Unwrap(context.user_id)))
            => /\ evaluate_segment_membership(segments, sid, context)
               /\ EnabledCall =>
                     \A r \in 1..Len(Cfg.rules) :
                         (/\ Cfg.rules[r].conditions /= <<>>
                          /\ Cfg.rules[r].conditions[1].value = AttributeValue_SegmentRef(sid))
                             => Res.reason =
                                  IF Cfg.rules[r].conditions[1].operator = "MatchesSegment"
                                  THEN "TargetingMatch" ELSE "Default"

C30_Witness ==
    /\ EnabledCall
    /\ context = EvaluationContext_new
    /\ \E sid \in DOMAIN segments :
          /\ segments[sid].excluded_users = <<S_u2, S_u1>>
          /\ segments[sid].included_users = <<>>
          /\ segments[sid].rules = <<SegmentRule_new>>
          /\ Cfg.rules[1].conditions =
                <<Condition_new(<<>>, "NotMatchesSegment", AttributeValue_SegmentRef(sid))>>
    /\ Res.reason = "Default"

====
